---- MODULE Spec2Model ----
(***************************************************************************)
(* Model of anumethod/multimodal-agent-builder:                            *)
(*   - BaseAgent.run / BaseAgent.chat and AgentMemory (base_agent.py)      *)
(*   - the HTTP application: security middleware, agent store, uploads     *)
(*     (main.py, config.py)                                                *)
(*   - the training API: start / background job / reset / manual closure   *)
(*     (training_endpoints.py, training_utils.py)                          *)
(* Strings whose characters matter (file names, content types, the         *)
(* hypothesis/pattern/structure of a closure) are sequences of characters. *)
(* An Optional value is a sequence of length 0 (None) or 1.                *)
(***************************************************************************)
EXTENDS Integers, Sequences, FiniteSets, TLC

VARIABLES
    \* ---- BaseAgent (one agent object) ----
    state,                  \* self.state
    enable_memory,          \* config.enable_memory (self.memory is None iff FALSE)
    short_term,             \* self.memory.short_term
    max_short_term_size,    \* self.memory.max_short_term_size
    conversation_history,   \* self.conversation_history
    enable_recursive_closure, \* config.enable_recursive_closure
    closed_loops,           \* len(self._closure_ledger.closed_loops)
    a_file_rows,            \* rows of agent_<id>_closure_ledger.csv
    a_stores,               \* memory.long_term/episodic/semantic and self.tools
    a_hook,                 \* how _maybe_log_loop_closure ended in this run
    a_sync,                 \* the calls of clear_memory: parity, what the last dropped
    a_op,                   \* the call in progress: "none", "run", "chat"
    a_pc,                   \* the awaited call it is suspended in
    a_input,                \* input_data / message of the call in progress
    a_exc,                  \* the exception the awaited call raised, if one did
    a_outcome,              \* how the last call ended: "none", "returned", "raised"
    response,               \* the AgentResponse the last call returned
    a_calls,                \* number of calls started
    \* ---- AgentMemory used on its own ----
    m_added,                \* every message passed to add_to_short_term, in order
    \* ---- HTTP application (main.py) ----
    agent_store,            \* agent_store: key -> agent
    next_uuid,              \* number of uuid4() ids handed out
    app_running,            \* FALSE after the lifespan's shutdown
    now,                    \* time.time()
    rate_window_starts_at,  \* _rate_window_starts_at
    rate_counts,            \* _rate_counts (a defaultdict(int))
    last_req,               \* the request answered last
    last_status,            \* its HTTP status
    image_invoked,          \* whether it reached agent.process_image
    http_log,               \* the requests answered, oldest first
    h_created,              \* ids POST /agents returned
    h_deleted,              \* keys whose DELETE was answered 200
    \* ---- training API (training_endpoints.py) ----
    training_managers,      \* training_managers: agent name -> manager
    training_status,        \* training_status: agent name -> status mapping
    next_manager,           \* number of AdaptiveTrainingManager objects built
    jobs,                   \* background tasks added and not yet run
    next_job,               \* number of background tasks added
    finished,               \* the background tasks that ran, with their outcome
    training_file_rows,     \* number of rows of training_closure_ledger.csv
    t_req,                  \* the training request answered last
    t_status,               \* its HTTP status
    \* ---- POST /training/closure ----
    manual_file,            \* rows of manual_closure_ledger.csv
    c_req,                  \* the closure request answered last
    c_resp,                 \* its response
    \* ---- RecursiveLoopClosureLedger (one backing file, one instance) ----
    l_file,                 \* the backing file: absent, or its rows as text
    l_loops,                \* self.closed_loops of the current instance
    l_logged,               \* every row detect_and_log_closure created, in order
    l_last,                 \* the last operation and what it returned
    l_steps,                \* number of operations performed
    \* ---- GuardianAgent ----
    g_file,                 \* the file at ledger_path: absent, or columns and rows
    g_report,               \* what the last scan_ledger returned or raised
    \* ---- SearchReplaceAgent and scripts/search_and_replace.py ----
    sr_files,               \* the files under repo_root: name -> content and mode
    sr_report,              \* what the last replace / search returned
    sr_last,                \* the last call and its arguments
    sr_steps,               \* number of calls made
    \* ---- BaseAgent._stabilized_generate (one agent, calls in sequence) ----
    sg_pc,                  \* where the call in flight waits
    sg_attempt,             \* the loop variable attempt
    sg_last_exc,            \* last_exc
    sg_trace,               \* generate attempts and sleeps of the call, in order
    sg_result,              \* how the call ended
    sg_calls,               \* number of calls made
    \* ---- concurrent chat() calls on one agent ----
    cc_config,              \* config.enable_memory, config.system_prompt set
    cc_history,             \* self.conversation_history
    cc_short_term,          \* self.memory.short_term
    cc_tasks,               \* each caller's chat(): position, message, outcome
    cc_calls,               \* number of chat() calls made
    \* ---- AdaptiveTrainingManager.create_training_loop (one manager) ----
    tl_data,                \* training_data: for each record, "caption" in data
    tl_epochs,              \* epochs
    tl_epoch,               \* the loop variable epoch
    tl_pc,                  \* "idle", "loop" or "done"
    tl_metrics,             \* self.training_metrics: iterations, closures
    tl_rows,                \* len(self.ledger.closed_loops)
    tl_loops_closed,        \* results["loops_closed"]
    tl_before,              \* the counters when the call started
    tl_calls,               \* number of calls made
    \* ---- AudioProcessor.chunk_audio (one call) ----
    ca_args,                \* len(audio), chunk_length_ms, overlap_ms
    ca_start,               \* start
    ca_chunks,              \* chunks, each as its window <<start, end>>
    ca_pc,                  \* "idle", "loop" or "done"
    ca_spin,                \* flips at each pass made after MaxChunks passes
    \* ---- ledger instances that share training_closure_ledger.csv ----
    sl_file,                \* the file: None, or Some(rows as written)
    sl_inst,                \* each instance: constructed?, its closed_loops
    sl_accepted,            \* the rows detect_and_log_closure accepted so far
    sl_ops                  \* number of operations made

agentVars == <<state, enable_memory, short_term, max_short_term_size,
               conversation_history, enable_recursive_closure, closed_loops,
               a_file_rows, a_stores, a_hook, a_sync, a_op, a_pc, a_input,
               a_exc, a_outcome, response, a_calls>>
memVars == <<m_added>>
httpVars == <<agent_store, next_uuid, app_running, now, rate_window_starts_at,
              rate_counts, last_req, last_status, image_invoked, http_log,
              h_created, h_deleted>>
trainVars == <<training_managers, training_status, next_manager, jobs, next_job,
               finished, training_file_rows, t_req, t_status>>
closureVars == <<manual_file, c_req, c_resp>>
ledgerVars == <<l_file, l_loops, l_logged, l_last, l_steps>>
\* the state of the components that are used outside the server process
guardVars == <<g_file, g_report>>
srVars == <<sr_files, sr_report, sr_last, sr_steps>>
sgVars == <<sg_pc, sg_attempt, sg_last_exc, sg_trace, sg_result, sg_calls>>
ccVars == <<cc_config, cc_history, cc_short_term, cc_tasks, cc_calls>>
tlVars == <<tl_data, tl_epochs, tl_epoch, tl_pc, tl_metrics, tl_rows,
            tl_loops_closed, tl_before, tl_calls>>
caVars == <<ca_args, ca_start, ca_chunks, ca_pc, ca_spin>>
slVars == <<sl_file, sl_inst, sl_accepted, sl_ops>>
ext2Vars == <<ccVars, tlVars, caVars, slVars>>
extVars == <<ledgerVars, guardVars, srVars, sgVars, ext2Vars>>
vars == <<agentVars, memVars, httpVars, trainVars, closureVars, extVars>>

----------------------------------------------------------------------------
(* Bounds *)
MaxCalls == 3
MaxAdds == 5
MaxCap == 3
MaxAgents == 2
MaxRequests == 4
MaxTicks == 3
MaxTrainingRequests == 2
MaxClosureRequests == 3

(* Program constants *)
DefaultMaxShortTerm == 50
ContextMessages == 10

----------------------------------------------------------------------------
(* Python helpers *)

Min(a, b) == IF a < b THEN a ELSE b
Max(a, b) == IF a > b THEN a ELSE b

None == <<>>
Some(x) == <<x>>

\* s[start:] for a Python list, start possibly negative
PySliceFrom(s, start) ==
    LET n == Len(s)
        lo == IF start < 0 THEN Max(n + start, 0) ELSE Min(start, n)
    IN  SubSeq(s, lo + 1, n)

\* str(e) of an exception carrying the message e
ExcStr(e) == e

----------------------------------------------------------------------------
(* Input domains *)

AgentStates == {"idle", "thinking", "executing", "waiting", "error", "completed"}
Texts == {"hi", "yo"}
Replies == {"ok"}
\* messages of the exceptions think/act/observe/generate can raise;
\* asyncio.TimeoutError() and the like carry no message
ExcTexts == {"", "boom"}
Inputs == {[kind |-> "str", text |-> t] : t \in Texts} \cup {[kind |-> "dict", text |-> "hi"]}
NoInput == [kind |-> "none", text |-> ""]

Message(role, content) == [role |-> role, content |-> content]

NoResponse == [state |-> "none", error |-> None, content |-> <<>>]

----------------------------------------------------------------------------
(* AgentMemory *)

add_to_short_term(st, cap, m) ==
    LET s1 == Append(st, m)
    IN  IF Len(s1) > cap THEN PySliceFrom(s1, 0 - cap) ELSE s1

get_context(st) == IF st # <<>> THEN PySliceFrom(st, 0 - ContextMessages) ELSE <<>>

----------------------------------------------------------------------------
(* Settings (config.py) *)

\* the fields the Settings class declares; reading any other attribute of
\* the settings object raises AttributeError
SettingsFields ==
    {"openai_api_key", "openai_model", "openai_max_tokens", "openai_temperature",
     "gemini_api_key", "gemini_model", "gemini_max_tokens", "gemini_temperature",
     "anthropic_api_key", "claude_model", "claude_max_tokens", "claude_temperature",
     "app_name", "app_version", "app_env", "app_debug", "app_port", "app_host",
     "log_level", "log_format",
     "rate_limit_enabled", "rate_limit_requests", "rate_limit_period",
     "max_file_size_mb", "allowed_image_types", "allowed_audio_types",
     "default_agent_timeout", "max_concurrent_agents", "enable_agent_memory"}

\* the fields security_middleware can read without an AttributeError
ReadableSettings == SettingsFields

rate_limit_enabled == TRUE
\* RATE_LIMIT_REQUESTS and RATE_LIMIT_PERIOD as configured (both ge=1)
rate_limit_requests == 2
rate_limit_period == 2
max_file_size_mb == 10
max_file_size_bytes == max_file_size_mb * 1024 * 1024

\* allowed_image_types.split(",")
allowed_image_types ==
    << <<"j","p","g">>, <<"j","p","e","g">>, <<"p","n","g">>, <<"g","i","f">>,
       <<"b","m","p">>, <<"w","e","b","p">> >>

\* [f".{ext.strip()}" for ext in ...]: none of the types has blanks to strip
allowed_image_extensions ==
    [i \in 1 .. Len(allowed_image_types) |-> <<".">> \o allowed_image_types[i]]

----------------------------------------------------------------------------
(* str methods on character sequences *)

UpperChars == <<"A","B","C","D","E","F","G","H","I","J","K","L","M",
                "N","O","P","Q","R","S","T","U","V","W","X","Y","Z">>
LowerChars == <<"a","b","c","d","e","f","g","h","i","j","k","l","m",
                "n","o","p","q","r","s","t","u","v","w","x","y","z">>

LowerChar(c) ==
    IF \E i \in 1 .. Len(UpperChars) : UpperChars[i] = c
    THEN LowerChars[CHOOSE i \in 1 .. Len(UpperChars) : UpperChars[i] = c]
    ELSE c

\* s.lower()
Lower(s) == [i \in 1 .. Len(s) |-> LowerChar(s[i])]

\* s.endswith(suffix)
EndsWith(s, suffix) ==
    /\ Len(suffix) <= Len(s)
    /\ SubSeq(s, Len(s) - Len(suffix) + 1, Len(s)) = suffix

AnyEndsWith(s, suffixes) == \E i \in 1 .. Len(suffixes) : EndsWith(s, suffixes[i])

----------------------------------------------------------------------------
(* HTTP application *)

NoKey == <<"", 0>>
UuidKey(n) == <<"uuid", n>>
UuidKeys == {UuidKey(n) : n \in 1 .. MaxAgents}
QuickKeys == {<<"quick-gpt4", 0>>, <<"quick-gemini", 0>>, <<"quick-claude", 0>>}

NoReq == [client |-> "", kind |-> "none", key |-> NoKey, type |-> "",
          content_length |-> 0, filename |-> <<>>, content_type |-> <<>>,
          body_size |-> 0]

Req(client, kind, key) == [NoReq EXCEPT !.client = client, !.kind = kind, !.key = key]

HttpInit ==
    /\ agent_store = << >>
    /\ next_uuid = 0
    /\ app_running = TRUE
    /\ now = rate_limit_period + 1
    /\ rate_window_starts_at = 0
    /\ rate_counts = << >>
    /\ last_req = NoReq
    /\ last_status = 0
    /\ image_invoked = FALSE
    /\ http_log = <<>>
    /\ h_created = {}
    /\ h_deleted = {}

\* d[key] of a defaultdict(int)
CountOf(counts, key) == IF key \in DOMAIN counts THEN counts[key] ELSE 0

\* d with d[k] = v
DictSet(d, k, v) == [x \in DOMAIN d \cup {k} |-> IF x = k THEN v ELSE d[x]]

DictDel_Keep(d, k) == d

DictDel_All(d, k) == << >>

\* d after del d[k]
DictDel(d, k) == [x \in DOMAIN d \ {k} |-> d[x]]

\* the try block of the limiter, in-process branch: the window is restarted
\* when it has elapsed, the client's counter is incremented and compared
InProcessLimiter(client) ==
    LET restart == now - rate_window_starts_at > rate_limit_period
        start1 == IF restart THEN now ELSE rate_window_starts_at
        counts0 == IF restart THEN << >> ELSE rate_counts
        counts1 == DictSet(counts0, client, CountOf(counts0, client) + 1)
    IN  [limited |-> counts1[client] > rate_limit_requests, raised |-> FALSE,
         start |-> start1, counts |-> counts1]

\* the limiter of security_middleware: `if settings.redis_url:` is evaluated
\* first, inside the try; an exception there leaves limited = False and the
\* counters untouched. A configured redis_url would select the external
\* counter; the in-process branch is the one taken when it is empty.
Limiter(client) ==
    IF "redis_url" \notin ReadableSettings
    THEN [limited |-> FALSE, raised |-> TRUE,
          start |-> rate_window_starts_at, counts |-> rate_counts]
    ELSE InProcessLimiter(client)

\* the deployments of the limiter: whether the settings object has a
\* redis_url field, its value, how the Redis client behaves, and the count
\* INCR returns
LimiterEnvs ==
    [has_redis_url : BOOLEAN, redis_url : {"", "redis://"},
     backend : {"ok", "import_error", "unreachable", "expire_fails"},
     count : 1 .. rate_limit_requests + 1]

LimiterExcept_Propagate(limiter) == [limiter EXCEPT !.limited = TRUE]

\* except Exception: limited = False
LimiterExcept(limiter) == [limiter EXCEPT !.limited = FALSE]

\* the try block of the limiter in the deployment env: the Redis branch when
\* redis_url is set, the in-process branch otherwise
LimiterTry(env, client) ==
    LET failed == [limited |-> FALSE, raised |-> TRUE,
                   start |-> rate_window_starts_at, counts |-> rate_counts]
    IN  IF ~env.has_redis_url THEN failed
        ELSE IF env.redis_url # ""
        THEN IF env.backend \in {"import_error", "unreachable"} THEN failed
             ELSE IF env.backend = "expire_fails" /\ env.count = 1 THEN failed
             ELSE [failed EXCEPT !.raised = FALSE,
                                 !.limited = env.count > rate_limit_requests]
        ELSE InProcessLimiter(client)

\* try: ... except Exception: limited = False
LimiterIn(env, client) ==
    LET l == LimiterTry(env, client)
    IN  IF l.raised THEN LimiterExcept(l) ELSE l

\* security_middleware up to call_next: 413, 429, or 0 to pass the request on
MiddlewareWith(req, l) ==
    IF req.content_length # 0 /\ req.content_length > max_file_size_bytes
    THEN [status |-> 413, reached_limiter |-> FALSE, raised |-> FALSE,
          start |-> rate_window_starts_at, counts |-> rate_counts]
    ELSE IF rate_limit_enabled
    THEN [status |-> IF l.limited THEN 429 ELSE 0, reached_limiter |-> TRUE,
          raised |-> l.raised, start |-> l.start, counts |-> l.counts]
    ELSE [status |-> 0, reached_limiter |-> FALSE, raised |-> FALSE,
          start |-> rate_window_starts_at, counts |-> rate_counts]

Middleware(req) == MiddlewareWith(req, Limiter(req.client))

\* the same middleware in the deployment env
MiddlewareIn(env, req) == MiddlewareWith(req, LimiterIn(env, req.client))

\* the try block of process_image: the HTTPException it raises, if any, and
\* whether agent.process_image was awaited
ProcessImageTry(req) ==
    IF req.content_type # <<>> /\ ~AnyEndsWith(req.content_type, allowed_image_types)
    THEN [raised |-> Some(400), invoked |-> FALSE]
    ELSE IF req.filename # <<>>
            /\ ~AnyEndsWith(Lower(req.filename), allowed_image_extensions)
    THEN [raised |-> Some(400), invoked |-> FALSE]
    ELSE IF req.body_size > max_file_size_bytes
    THEN [raised |-> Some(413), invoked |-> FALSE]
    ELSE [raised |-> None, invoked |-> TRUE]

\* `except Exception as e: raise HTTPException(500, ...)` around the try
\* block: HTTPException is an Exception, so it is caught here as well
ProcessImageExcept(raised) == IF raised # None THEN 500 ELSE 200

\* the handler of each route: [status, store, uuids, invoked]
Handler(req) ==
    LET same == [status |-> 200, store |-> agent_store, uuids |-> next_uuid,
                 invoked |-> FALSE]
        present == req.key \in DOMAIN agent_store
    IN  CASE req.kind = "create" ->
               IF req.type \in {"simple", "multimodal"}
               THEN [same EXCEPT
                       !.store = DictSet(agent_store, UuidKey(next_uuid + 1),
                                         [id |-> UuidKey(next_uuid + 1),
                                          type |-> req.type]),
                       !.uuids = next_uuid + 1]
               ELSE [same EXCEPT !.status = 400]
          [] req.kind \in {"get", "chat", "invoke", "clear_memory"} ->
               IF present THEN same ELSE [same EXCEPT !.status = 404]
          [] req.kind = "delete" ->
               IF present
               THEN [same EXCEPT !.store = DictDel(agent_store, req.key)]
               ELSE [same EXCEPT !.status = 404]
          [] req.kind = "process_image" ->
               IF ~present THEN [same EXCEPT !.status = 404]
               ELSE IF agent_store[req.key].type # "multimodal"
               THEN [same EXCEPT !.status = 400]
               ELSE LET t == ProcessImageTry(req)
                    IN  [same EXCEPT !.status = ProcessImageExcept(t.raised),
                                     !.invoked = t.invoked]
          [] req.kind = "quick" ->
               IF present THEN same
               ELSE [same EXCEPT
                       !.store = DictSet(agent_store, req.key,
                                         [id |-> UuidKey(next_uuid + 1),
                                          type |-> "multimodal"]),
                       !.uuids = next_uuid + 1]
          [] OTHER -> same

\* one request, from the middleware (with the outcome m) to the response
HttpServe(req, m) ==
    /\ app_running
    /\ Len(http_log) < MaxRequests
    /\ req.kind \in {"create", "quick"} => next_uuid < MaxAgents
    /\ LET h == IF m.status = 0 THEN Handler(req)
                ELSE [status |-> m.status, store |-> agent_store,
                      uuids |-> next_uuid, invoked |-> FALSE]
       IN  /\ rate_window_starts_at' = m.start
           /\ rate_counts' = m.counts
           /\ agent_store' = h.store
           /\ next_uuid' = h.uuids
           /\ last_req' = req
           /\ last_status' = h.status
           /\ image_invoked' = h.invoked
           /\ http_log' = Append(http_log, [client |-> req.client, time |-> now,
                                            limiter |-> m.reached_limiter,
                                            raised |-> m.raised,
                                            status |-> h.status])
           /\ h_created' = IF req.kind = "create" /\ h.status = 200
                           THEN h_created \cup {UuidKey(next_uuid + 1)}
                           ELSE h_created
           /\ h_deleted' = IF req.kind = "delete" /\ h.status = 200
                           THEN h_deleted \cup {req.key} ELSE h_deleted
    /\ UNCHANGED <<app_running, now, agentVars, memVars, trainVars, closureVars, extVars>>

HttpRequest(req) == HttpServe(req, Middleware(req))

\* time passes
Tick ==
    /\ app_running
    /\ now < rate_limit_period + 1 + MaxTicks
    /\ now' = now + 1
    /\ UNCHANGED <<agent_store, next_uuid, app_running, rate_window_starts_at,
                   rate_counts, last_req, last_status, image_invoked, http_log,
                   h_created, h_deleted, agentVars, memVars, trainVars,
                   closureVars, extVars>>

\* lifespan shutdown: agent_store.clear()
Shutdown ==
    /\ app_running
    /\ app_running' = FALSE
    /\ agent_store' = << >>
    /\ UNCHANGED <<next_uuid, now, rate_window_starts_at, rate_counts, last_req,
                   last_status, image_invoked, http_log, h_created, h_deleted,
                   agentVars, memVars, trainVars, closureVars, extVars>>

\* ---- the agent routes ----
StoreKeys == UuidKeys \cup {<<"quick-gpt4", 0>>}

StoreRequests ==
    {[Req("c1", "create", NoKey) EXCEPT !.type = t] :
        t \in {"simple", "multimodal", "bogus"}}
    \cup {Req("c1", k, key) :
            k \in {"get", "delete", "chat", "invoke", "clear_memory"},
            key \in StoreKeys}
    \cup {Req("c1", "quick", <<"quick-gpt4", 0>>)}

NextStore ==
    \/ \E req \in StoreRequests : HttpRequest(req)
    \/ Shutdown

\* ---- uploads ----
FileNames ==
    { <<>>, <<"a", ".", "p", "n", "g">>, <<"a", ".", "P", "N", "G">>,
      <<"a", ".", "e", "x", "e">>, <<"p", "n", "g">> }
ContentTypes ==
    { <<>>, <<"i","m","a","g","e","/","p","n","g">>,
      <<"t","e","x","t","/","h","t","m","l">> }
BodySizes == {1, max_file_size_bytes + 1}

\* a multipart body is longer than the file it carries; a chunked upload
\* declares no length
UploadRequests ==
    {[Req("c1", "process_image", key) EXCEPT
        !.filename = f, !.content_type = ct, !.body_size = b,
        !.content_length = IF declared THEN b + 200 ELSE 0] :
        key \in {UuidKey(1)}, f \in FileNames, ct \in ContentTypes,
        b \in BodySizes, declared \in BOOLEAN}

NextUpload ==
    \/ \E t \in {"simple", "multimodal"} :
          HttpRequest([Req("c1", "create", NoKey) EXCEPT !.type = t])
    \/ \E req \in UploadRequests : HttpRequest(req)

\* ---- rate limiting ----
Clients == {"c1", "c2"}

NextRate ==
    \/ \E c \in Clients : HttpRequest(Req(c, "health", NoKey))
    \/ Tick

\* ---- rate limiting in every deployment; request.client may be None ----
\* (all requests within one window)
NextLimiterFaults ==
    \E c \in {"c1", "unknown"}, env \in LimiterEnvs :
        HttpServe(Req(c, "health", NoKey),
                  MiddlewareIn(env, Req(c, "health", NoKey)))

----------------------------------------------------------------------------
(* Recursive loop closure ledger (training_utils.py) *)

Whitespace == {" ", "\t", "\n"}

\* v.strip() is the empty string
IsBlank(v) == \A i \in 1 .. Len(v) : v[i] \in Whitespace

\* ClosureRecognitionAgent.detect_closure: all three are non-blank strings
detect_closure(hypothesis, pattern, structure) ==
    ~IsBlank(hypothesis) /\ ~IsBlank(pattern) /\ ~IsBlank(structure)

DigitChars == <<"0", "1", "2", "3", "4", "5", "6", "7", "8", "9">>

RECURSIVE Decimal(_)
\* str(n) for n >= 0
Decimal(n) ==
    IF n < 10 THEN <<DigitChars[n + 1]>>
    ELSE Decimal(n \div 10) \o <<DigitChars[(n % 10) + 1]>>

RECURSIVE ZeroPad(_, _)
\* the digits d padded with zeros on the left to the width w
ZeroPad(d, w) == IF Len(d) >= w THEN d ELSE ZeroPad(<<"0">> \o d, w)

\* f"RL-{n:03d}"
LoopId(n) == <<"R", "L", "-">> \o ZeroPad(Decimal(n), 3)

----------------------------------------------------------------------------
(* Training API *)

Names == {"a", "b"}
EpochChoices == {1, 2}
TrainingStatuses ==
    {"initializing", "loading_data", "training", "validating", "completed", "failed"}

StatusRec(st, err) == [status |-> st, error |-> err]

NoTrainingReq == [seq |-> 0, kind |-> "none", name |-> ""]

TrainingInit ==
    /\ training_managers = << >>
    /\ training_status = << >>
    /\ next_manager = 0
    /\ jobs = {}
    /\ next_job = 0
    /\ finished = {}
    /\ training_file_rows = 0
    /\ t_req = NoTrainingReq
    /\ t_status = 0

\* AdaptiveTrainingManager(): its ledger is re-hydrated from
\* training_closure_ledger.csv when that file exists
NewManager(id) == [id |-> id, rows |-> training_file_rows, iterations |-> 0,
                   closures |-> 0]

AlreadyTraining_Never(name) == FALSE

\* start_training: `if request.agent_name in training_status` and the status
\* found there is "training"
AlreadyTraining(name) ==
    /\ name \in DOMAIN training_status
    /\ training_status[name].status = "training"

\* `except Exception as e: raise HTTPException(500, ...)` of start_training:
\* the HTTPException(400) raised inside the try is caught here too
StartTrainingExcept(raised) == IF raised # None THEN 500 ELSE 200

TrainingRequestStarts(kind, name) ==
    /\ t_req.seq < MaxTrainingRequests
    /\ t_req' = [seq |-> t_req.seq + 1, kind |-> kind, name |-> name]

\* POST /training/start
StartTraining(name, epochs) ==
    /\ TrainingRequestStarts("start", name)
    /\ IF AlreadyTraining(name)
       THEN /\ t_status' = StartTrainingExcept(Some(400))
            /\ UNCHANGED <<training_managers, training_status, next_manager,
                           jobs, next_job>>
       ELSE /\ training_managers' =
                   DictSet(training_managers, name, NewManager(next_manager + 1))
            /\ next_manager' = next_manager + 1
            /\ training_status' =
                   DictSet(training_status, name, StatusRec("initializing", None))
            /\ jobs' = jobs \cup {[id |-> next_job + 1, name |-> name,
                                   epochs |-> epochs]}
            /\ next_job' = next_job + 1
            /\ t_status' = StartTrainingExcept(None)
    /\ UNCHANGED <<finished, training_file_rows, agentVars, memVars, httpVars,
                   closureVars, extVars>>

\* DELETE /training/reset/{agent_name}
ResetTraining(name) ==
    /\ TrainingRequestStarts("reset", name)
    /\ training_managers' = IF name \in DOMAIN training_managers
                            THEN DictDel(training_managers, name)
                            ELSE training_managers
    /\ training_status' = IF name \in DOMAIN training_status
                          THEN DictDel(training_status, name)
                          ELSE training_status
    /\ t_status' = 200
    /\ UNCHANGED <<next_manager, jobs, next_job, finished, training_file_rows,
                   agentVars, memVars, httpVars, closureVars, extVars>>

\* where a job can raise: nowhere, in load_training_data, in
\* create_training_loop (before its first closure), in validate_with_closure
\* (before its closure)
FailPoints == {"none", "load", "train", "validate"}

\* the statuses run_training_async writes until it raises at fail_at
StatusesWritten(fail_at) ==
    CASE fail_at = "load" -> <<"loading_data">>
      [] fail_at = "train" -> <<"loading_data", "training">>
      [] fail_at = "validate" -> <<"loading_data", "training", "validating">>
      [] OTHER -> <<"loading_data", "training", "validating", "completed">>

\* create_training_loop: an epoch after the first closes one loop when one of
\* the records 0, 3, 6, 9 has a caption
ClosuresOfLoop(epochs, captions) == IF captions THEN epochs - 1 ELSE 0

\* the manager after create_training_loop and validate_with_closure ran as far
\* as fail_at allows
ManagerAfterJob(m, epochs, captions, fail_at) ==
    LET trained == fail_at \in {"none", "validate"}
        validated == fail_at = "none"
        c == IF trained THEN ClosuresOfLoop(epochs, captions) ELSE 0
        v == IF validated /\ m.closures + c > 0 THEN 1 ELSE 0
    IN  [m EXCEPT !.rows = m.rows + c + v,
                  !.iterations = m.iterations + (IF trained THEN epochs ELSE 0),
                  !.closures = m.closures + c]

\* run_training_async, which has no suspension point: it runs from its first
\* line to its last without another handler in between
RunTrainingAsync(job, fail_at, captions) ==
    /\ job \in jobs
    /\ jobs' = jobs \ {job}
    /\ LET name == job.name
           from == IF name \in DOMAIN training_status
                   THEN training_status[name].status ELSE "absent"
           done(trace, outcome) ==
               finished' = finished \cup
                   {[id |-> job.id, name |-> name, from |-> from,
                     trace |-> trace, outcome |-> outcome]}
       IN  IF name \notin DOMAIN training_managers
              \/ name \notin DOMAIN training_status
           THEN \* KeyError in the try block
                /\ IF name \in DOMAIN training_status
                   THEN /\ training_status' =
                              DictSet(training_status, name,
                                      StatusRec("failed", Some("KeyError")))
                        /\ done(<<"failed">>, "failed")
                   ELSE \* KeyError again, in the except block
                        /\ training_status' = training_status
                        /\ done(<<>>, "unhandled")
                /\ UNCHANGED <<training_managers, training_file_rows>>
           ELSE LET m0 == training_managers[name]
                    m1 == ManagerAfterJob(m0, job.epochs, captions, fail_at)
                IN  /\ training_managers' = DictSet(training_managers, name, m1)
                    /\ training_file_rows' =
                          IF m1.rows > m0.rows THEN m1.rows ELSE training_file_rows
                    /\ IF fail_at = "none"
                       THEN /\ training_status' =
                                  DictSet(training_status, name,
                                          StatusRec("completed", None))
                            /\ done(StatusesWritten(fail_at), "completed")
                       ELSE /\ training_status' =
                                  DictSet(training_status, name,
                                          StatusRec("failed", Some("boom")))
                            /\ done(Append(StatusesWritten(fail_at), "failed"),
                                    "failed")
    /\ UNCHANGED <<next_manager, next_job, t_req, t_status, agentVars, memVars,
                   httpVars, closureVars, extVars>>

NextTraining ==
    \/ \E name \in Names, epochs \in EpochChoices : StartTraining(name, epochs)
    \/ \E name \in Names : ResetTraining(name)
    \/ \E job \in jobs, fail_at \in FailPoints, captions \in BOOLEAN :
          RunTrainingAsync(job, fail_at, captions)

----------------------------------------------------------------------------
(* POST /training/closure *)

ClosureStrs == { <<>>, <<" ">>, <<"h">>, <<" ", "p">> }

NoClosureReq == [seq |-> 0, hypothesis |-> <<>>, pattern |-> <<>>,
                 structure |-> <<>>]
NoClosureResp == [status |-> 0, success |-> FALSE, total_loops |-> 0,
                  loop_id |-> <<>>]

ClosureInit ==
    /\ manual_file = <<>>
    /\ c_req = NoClosureReq
    /\ c_resp = NoClosureResp

\* `except Exception as e: raise HTTPException(500, ...)` of log_loop_closure:
\* the HTTPException(400) raised inside the try is caught here too
LogClosureExcept(raised) == IF raised # None THEN 500 ELSE 200

\* POST /training/closure: a ledger is built on manual_closure_ledger.csv
\* (and re-hydrated from it), the tuple is logged, the file is saved
LogLoopClosure(hypothesis, pattern, structure) ==
    /\ c_req.seq < MaxClosureRequests
    /\ c_req' = [seq |-> c_req.seq + 1, hypothesis |-> hypothesis,
                 pattern |-> pattern, structure |-> structure]
    /\ LET closed_loops0 == manual_file
       IN  IF detect_closure(hypothesis, pattern, structure)
           THEN LET loop == [loop_id |-> LoopId(Len(closed_loops0) + 1),
                             hypothesis |-> hypothesis, pattern |-> pattern,
                             structure |-> structure]
                    closed_loops1 == Append(closed_loops0, loop)
                IN  /\ manual_file' = closed_loops1
                    /\ c_resp' = [status |-> LogClosureExcept(None),
                                  success |-> TRUE,
                                  total_loops |-> Len(closed_loops1),
                                  loop_id |-> LoopId(Len(closed_loops1))]
           ELSE /\ manual_file' = manual_file
                /\ c_resp' = [NoClosureResp EXCEPT
                                 !.status = LogClosureExcept(Some(400))]
    /\ UNCHANGED <<agentVars, memVars, httpVars, trainVars, extVars>>

NextClosure ==
    \E h \in ClosureStrs, p \in ClosureStrs, st \in ClosureStrs :
        LogLoopClosure(h, p, st)

----------------------------------------------------------------------------
(* BaseAgent *)

\* the other stores of a fresh agent: AgentMemory() defaults and tools or []
NoStores == [long_term |-> {}, episodic |-> <<>>, semantic |-> {},
             tools |-> <<>>]
NoSync == [n |-> 0, dropped |-> FALSE]

AgentFields(capacities) ==
    /\ state = "idle"
    /\ enable_memory \in BOOLEAN
    /\ short_term = <<>>
    /\ max_short_term_size \in capacities
    /\ conversation_history = <<>>
    /\ enable_recursive_closure \in BOOLEAN
    /\ closed_loops = 0
    /\ a_file_rows = 0
    /\ a_stores = NoStores
    /\ a_hook = "none"
    /\ a_sync = NoSync
    /\ a_op = "none"
    /\ a_pc = "idle"
    /\ a_input = NoInput
    /\ a_exc = None
    /\ a_outcome = "none"
    /\ response = NoResponse
    /\ a_calls = 0

\* BaseAgent.__init__: self.memory = AgentMemory() with the default capacity
AgentInit == AgentFields({DefaultMaxShortTerm})

\* the call returns resp to its caller
Return(resp) ==
    /\ response' = resp
    /\ a_outcome' = "returned"
    /\ a_op' = "none"
    /\ a_pc' = "idle"

\* a call starts: nothing has been returned or raised yet
CallStarts(op, pc, inp) ==
    /\ a_op = "none"
    /\ a_calls < MaxCalls
    /\ a_calls' = a_calls + 1
    /\ a_op' = op
    /\ a_pc' = pc
    /\ a_input' = inp
    /\ a_exc' = None
    /\ a_outcome' = "none"
    /\ response' = NoResponse

StateBeforeAct_Forgotten == "thinking"

\* run: self.state = AgentState.EXECUTING before act is called
StateBeforeAct == "executing"

RunExcept_Reraise(e) ==
    /\ state' = state
    /\ response' = NoResponse
    /\ a_outcome' = "raised"
    /\ a_op' = "none"
    /\ a_pc' = "idle"

\* run: except Exception as e
RunExcept(e) ==
    /\ state' = "error"
    /\ Return([state |-> "error", error |-> Some(ExcStr(e)),
               content |-> <<"An error occurred while processing your request.">>])

\* chat: except Exception as e
ChatExcept(e) ==
    /\ state' = "error"
    /\ Return([state |-> "error", error |-> Some(ExcStr(e)),
               content |-> <<"Error: ", ExcStr(e)>>])

MemoryAfterCycle_AssistantFirst(st, cap, user, assistant) ==
    add_to_short_term(add_to_short_term(st, cap, Message("assistant", assistant)),
                      cap, Message("user", user))

\* run / chat: the two add_to_short_term calls after a successful generation
MemoryAfterCycle(st, cap, user, assistant) ==
    add_to_short_term(add_to_short_term(st, cap, Message("user", user)),
                      cap, Message("assistant", assistant))

\* run up to the await of think
RunBegin(inp) ==
    /\ CallStarts("run", "think", inp)
    /\ state' = "thinking"
    /\ a_hook' = "none"
    /\ UNCHANGED <<enable_memory, short_term, max_short_term_size,
                   conversation_history, enable_recursive_closure, closed_loops,
                   a_file_rows, a_stores, a_sync, memVars, httpVars, trainVars, closureVars, extVars>>

\* think returned: run up to the await of act
ThinkReturn ==
    /\ a_op = "run" /\ a_pc = "think"
    /\ state' = StateBeforeAct
    /\ a_pc' = "act"
    /\ UNCHANGED <<enable_memory, short_term, max_short_term_size,
                   conversation_history, enable_recursive_closure, closed_loops,
                   a_file_rows, a_stores, a_hook, a_sync, a_op, a_input, a_exc, a_outcome, response,
                   a_calls, memVars, httpVars, trainVars, closureVars, extVars>>

\* act returned: run up to the await of observe
ActReturn ==
    /\ a_op = "run" /\ a_pc = "act"
    /\ a_pc' = "observe"
    /\ UNCHANGED <<state, enable_memory, short_term, max_short_term_size,
                   conversation_history, enable_recursive_closure, closed_loops,
                   a_file_rows, a_stores, a_hook, a_sync, a_op, a_input, a_exc, a_outcome, response,
                   a_calls, memVars, httpVars, trainVars, closureVars, extVars>>

\* think, act or observe raised e
PhaseRaise(e) ==
    /\ a_op = "run" /\ a_pc \in {"think", "act", "observe"}
    /\ a_exc' = Some(e)
    /\ RunExcept(e)
    /\ UNCHANGED <<enable_memory, short_term, max_short_term_size,
                   conversation_history, enable_recursive_closure, closed_loops,
                   a_file_rows, a_stores, a_hook, a_sync, a_input, a_calls, memVars, httpVars, trainVars, closureVars, extVars>>

\* _maybe_log_loop_closure inside try/except: the tuple it builds is never
\* blank, so the row is appended unless recognition or row creation raises;
\* save_ledger may raise after the append
HookOutcomes == {"logged", "recognition_failed", "row_failed", "save_failed"}
HookEnd(hook) == IF enable_recursive_closure THEN hook ELSE "off"
HookRows_None(hook) == closed_loops

HookRows(hook) ==
    IF enable_recursive_closure /\ hook \in {"logged", "save_failed"}
    THEN closed_loops + 1 ELSE closed_loops
HookFile(hook) ==
    IF enable_recursive_closure /\ hook = "logged"
    THEN closed_loops + 1 ELSE a_file_rows

HookPropagates_Always(hook) == HookEnd(hook) \notin {"logged", "off"}

\* except Exception: pass -- nothing raised in the hook leaves it
HookPropagates(hook) == FALSE

\* observe returned obs: closure hook, memory update, COMPLETED, response
ObserveReturn(obs, hook) ==
    /\ a_op = "run" /\ a_pc = "observe"
    /\ closed_loops' = HookRows(hook)
    /\ a_file_rows' = HookFile(hook)
    /\ a_hook' = HookEnd(hook)
    /\ IF HookPropagates(hook)
       THEN /\ a_exc' = Some("hook")
            /\ RunExcept("hook")
            /\ UNCHANGED short_term
       ELSE /\ short_term' = IF enable_memory /\ a_input.kind = "str"
                             THEN MemoryAfterCycle(short_term,
                                                   max_short_term_size,
                                                   a_input.text, obs)
                             ELSE short_term
            /\ state' = "completed"
            /\ Return([state |-> "completed", error |-> None,
                       content |-> <<obs>>])
            /\ UNCHANGED a_exc
    /\ UNCHANGED <<enable_memory, max_short_term_size, conversation_history,
                   enable_recursive_closure, a_stores, a_sync, a_input,
                   a_calls, memVars, httpVars, trainVars, closureVars, extVars>>

ChatBegin_NoAppend(msg) ==
    /\ CallStarts("chat", "generate", [kind |-> "str", text |-> msg])
    /\ state' = "thinking"
    /\ UNCHANGED <<enable_memory, short_term, max_short_term_size,
                   conversation_history, enable_recursive_closure,
                   closed_loops, a_file_rows, a_stores, a_hook, a_sync,
                   memVars, httpVars, trainVars, closureVars, extVars>>

\* chat up to the await of llm_client.generate
ChatBegin(msg) ==
    /\ CallStarts("chat", "generate", [kind |-> "str", text |-> msg])
    /\ state' = "thinking"
    /\ conversation_history' = Append(conversation_history, Message("user", msg))
    /\ UNCHANGED <<enable_memory, short_term, max_short_term_size,
                   enable_recursive_closure, closed_loops, a_file_rows, a_stores, a_hook, a_sync, memVars, httpVars, trainVars, closureVars, extVars>>

\* generate returned reply
GenerateReturn(reply) ==
    /\ a_op = "chat" /\ a_pc = "generate"
    /\ conversation_history' =
           Append(conversation_history, Message("assistant", reply))
    /\ short_term' = IF enable_memory
                      THEN MemoryAfterCycle(short_term, max_short_term_size,
                                            a_input.text, reply)
                      ELSE short_term
    /\ state' = "completed"
    /\ Return([state |-> "completed", error |-> None, content |-> <<reply>>])
    /\ UNCHANGED <<enable_memory, max_short_term_size, enable_recursive_closure,
                   closed_loops, a_file_rows, a_stores, a_hook, a_sync, a_input, a_exc, a_calls, memVars, httpVars, trainVars, closureVars, extVars>>

\* generate raised e
GenerateRaise(e) ==
    /\ a_op = "chat" /\ a_pc = "generate"
    /\ a_exc' = Some(e)
    /\ ChatExcept(e)
    /\ UNCHANGED <<enable_memory, short_term, max_short_term_size,
                   conversation_history, enable_recursive_closure, closed_loops,
                   a_file_rows, a_stores, a_hook, a_sync, a_input, a_calls, memVars, httpVars, trainVars, closureVars, extVars>>

NextAgent ==
    \/ \E inp \in Inputs : RunBegin(inp)
    \/ ThinkReturn
    \/ ActReturn
    \/ \E e \in ExcTexts : PhaseRaise(e)
    \/ \E obs \in Replies, hook \in HookOutcomes : ObserveReturn(obs, hook)
    \/ \E msg \in Texts : ChatBegin(msg)
    \/ \E reply \in Replies : GenerateReturn(reply)
    \/ \E e \in ExcTexts : GenerateRaise(e)

\* with think and observe returning str and act a dict, as annotated, no
\* statement of the hook before closed_loops.append can raise: the tuple is
\* recognised and the row built from strings; only df.to_csv can fail
TypedHookOutcomes == {"logged", "save_failed"}

NextAgentTyped ==
    \/ \E inp \in Inputs : RunBegin(inp)
    \/ ThinkReturn
    \/ ActReturn
    \/ \E e \in ExcTexts : PhaseRaise(e)
    \/ \E obs \in Replies, hook \in TypedHookOutcomes : ObserveReturn(obs, hook)
    \/ \E msg \in Texts : ChatBegin(msg)
    \/ \E reply \in Replies : GenerateReturn(reply)
    \/ \E e \in ExcTexts : GenerateRaise(e)

----------------------------------------------------------------------------
(* The synchronous methods of BaseAgent and AgentMemory, callable between *)
(* the steps of a run or chat in flight                                   *)

MaxStoreItems == 1
ToolNames == {"calc"}
Episodes == {"ep"}
MemoryKeys == {"k"}

SyncOthers == <<memVars, httpVars, trainVars, closureVars, extVars>>
AgentCall == <<a_op, a_pc, a_input, a_exc, a_outcome, response, a_calls>>
AgentConfigVars == <<enable_memory, max_short_term_size,
                     enable_recursive_closure, closed_loops, a_file_rows,
                     a_hook>>

\* n alternates so that two calls in a row are two steps
SyncStep(dropped) == a_sync' = [n |-> 1 - a_sync.n, dropped |-> dropped]

clear_short_term_Keep(st) == st

\* AgentMemory.clear_short_term: self.short_term.clear()
clear_short_term(st) == << >>

\* BaseAgent.clear_memory
ClearMemory ==
    /\ SyncStep(Len(short_term) >= 2 /\ Len(conversation_history) >= 2)
    /\ short_term' = IF enable_memory THEN clear_short_term(short_term)
                      ELSE short_term
    /\ conversation_history' = << >>
    /\ UNCHANGED <<state, a_stores, AgentConfigVars, AgentCall, SyncOthers>>

\* BaseAgent.add_tool (config.enable_tools is on by default)
AddTool(tool) ==
    /\ Len(a_stores.tools) < MaxStoreItems
    /\ a_stores' = [a_stores EXCEPT !.tools = Append(@, tool)]
    /\ UNCHANGED <<state, short_term, conversation_history, a_sync,
                   AgentConfigVars, AgentCall, SyncOthers>>

\* AgentMemory.add_episodic_memory
AddEpisodicMemory(episode) ==
    /\ enable_memory
    /\ Len(a_stores.episodic) < MaxStoreItems
    /\ a_stores' = [a_stores EXCEPT !.episodic = Append(@, episode)]
    /\ UNCHANGED <<state, short_term, conversation_history, a_sync,
                   AgentConfigVars, AgentCall, SyncOthers>>

\* a caller fills the public dicts memory.long_term and memory.semantic
PutFact(k) ==
    /\ enable_memory
    /\ k \notin a_stores.long_term
    /\ a_stores' = [a_stores EXCEPT !.long_term = @ \cup {k},
                                    !.semantic = @ \cup {k}]
    /\ UNCHANGED <<state, short_term, conversation_history, a_sync,
                   AgentConfigVars, AgentCall, SyncOthers>>

NextClearMemory ==
    \/ NextAgent
    \/ ClearMemory
    \/ \E tool \in ToolNames : AddTool(tool)
    \/ \E episode \in Episodes : AddEpisodicMemory(episode)
    \/ \E k \in MemoryKeys : PutFact(k)

----------------------------------------------------------------------------
(* AgentMemory on its own: a memory of any capacity receives messages *)

\* AgentMemory(max_short_term_size=N) for every N in 0..MaxCap
MemoryInit ==
    /\ AgentFields(0 .. MaxCap)
    /\ enable_memory = TRUE
    /\ enable_recursive_closure = FALSE

\* memory.add_to_short_term(message)
AddToShortTerm(m) ==
    /\ Len(m_added) < MaxAdds
    /\ short_term' = add_to_short_term(short_term, max_short_term_size, m)
    /\ m_added' = Append(m_added, m)
    /\ UNCHANGED <<state, enable_memory, max_short_term_size, conversation_history,
                   enable_recursive_closure, closed_loops, a_file_rows, a_stores, a_hook, a_sync, a_op, a_pc,
                   a_input, a_exc, a_outcome, response, a_calls, httpVars, trainVars, closureVars, extVars>>

NextMemory ==
    \E role \in {"user", "assistant"}, t \in Texts : AddToShortTerm(Message(role, t))

----------------------------------------------------------------------------
(* RecursiveLoopClosureLedger on a backing file (training_utils.py)       *)
(* A cell of a row is [t, v]: a str with the characters v, the float NaN, *)
(* an int or a float with the digits v. The file holds text only.         *)

MaxLedgerOps == 4

Str(v) == [t |-> "str", v |-> v]
NaN == [t |-> "nan", v |-> <<>>]

\* the fields of a RecursiveLoop that get_ledger_df writes as columns (the
\* Timestamp column, an ISO date, is left out)
LoopFields == {"loop_id", "topic", "hypothesis", "pattern", "structure", "why_closed"}

\* strings pandas.read_csv takes for a missing value (those the inputs use)
NAStrings == { <<>>, <<"N", "A">>, <<"n", "a", "n">>, <<"n", "u", "l", "l">> }

IsDigit(c) == \E i \in 1 .. Len(DigitChars) : DigitChars[i] = c
DigitValue(c) == (CHOOSE i \in 1 .. Len(DigitChars) : DigitChars[i] = c) - 1

IsIntText(x) == Len(x) > 0 /\ \A i \in 1 .. Len(x) : IsDigit(x[i])
IsFloatText(x) ==
    /\ Len(x) > 2
    /\ SubSeq(x, Len(x) - 1, Len(x)) = <<".", "0">>
    /\ IsIntText(SubSeq(x, 1, Len(x) - 2))

RECURSIVE ParseInt(_)
\* int(x) for a string of digits
ParseInt(x) ==
    IF Len(x) = 0 THEN 0
    ELSE 10 * ParseInt(SubSeq(x, 1, Len(x) - 1)) + DigitValue(x[Len(x)])

\* DataFrame.to_csv: how a cell is written
CellText(c) ==
    CASE c.t = "nan" -> <<>>
      [] c.t = "float" -> c.v \o <<".", "0">>
      [] OTHER -> c.v

\* get_ledger_df().to_csv(ledger_file, index=False)
ToCsv(loops) ==
    [i \in 1 .. Len(loops) |-> [f \in LoopFields |-> CellText(loops[i][f])]]

\* pandas.read_csv on one column: missing values become NaN; a column whose
\* other values are all numbers becomes int64 (float64 when a value is missing
\* or written as a float); any other column keeps its strings
ReadColumn(texts) ==
    LET present == {i \in 1 .. Len(texts) : texts[i] \notin NAStrings}
        numeric == \A i \in present : IsIntText(texts[i]) \/ IsFloatText(texts[i])
        ints == \A i \in present : IsIntText(texts[i])
        digits(x) == IF IsIntText(x) THEN Decimal(ParseInt(x))
                     ELSE Decimal(ParseInt(SubSeq(x, 1, Len(x) - 2)))
    IN  [i \in 1 .. Len(texts) |->
            IF i \notin present THEN NaN
            ELSE IF present # {} /\ numeric
            THEN [t |-> IF ints /\ present = 1 .. Len(texts) THEN "int" ELSE "float",
                  v |-> digits(texts[i])]
            ELSE Str(texts[i])]

\* pandas.read_csv(ledger_file) followed by the loop of load_ledger
ReadCsv(rows) ==
    [i \in 1 .. Len(rows) |->
        [f \in LoopFields |-> ReadColumn([j \in 1 .. Len(rows) |-> rows[j][f]])[i]]]

NoArgs == [hypothesis |-> <<>>, pattern |-> <<>>, structure |-> <<>>]

LedgerInit ==
    /\ l_file = None
    /\ l_loops = <<>>
    /\ l_logged = <<>>
    /\ l_last = [op |-> "init", ret |-> FALSE, args |-> NoArgs]
    /\ l_steps = 0

LedgerStep(op, ret, args) ==
    /\ l_steps < MaxLedgerOps
    /\ l_steps' = l_steps + 1
    /\ l_last' = [op |-> op, ret |-> ret, args |-> args]

\* load_ledger: the rows of the file replace closed_loops when the file exists
load_ledger(loops, file) == IF file # None THEN ReadCsv(file[1]) ELSE loops

\* f"Loop {len(self.closed_loops) + 1}"
DefaultTopic(n) == <<"L", "o", "o", "p", " ">> \o Decimal(n)

NextLoopId_Fixed(loops) == LoopId(1)

\* f"RL-{len(self.closed_loops) + 1:03d}"
NextLoopId(loops) == LoopId(Len(loops) + 1)

\* RecursiveLoop(...) as detect_and_log_closure builds it
NewLoop(loops, hypothesis, pattern, structure, explanation, topic) ==
    [loop_id |-> Str(NextLoopId(loops)),
     topic |-> Str(IF topic # <<>> THEN topic ELSE DefaultTopic(Len(loops) + 1)),
     hypothesis |-> Str(hypothesis), pattern |-> Str(pattern),
     structure |-> Str(structure), why_closed |-> Str(explanation)]

\* RecursiveLoopClosureLedger(ledger_file=path): a new instance on the path
LedgerNew ==
    /\ LedgerStep("new", FALSE, NoArgs)
    /\ l_loops' = load_ledger(<<>>, l_file)
    /\ UNCHANGED <<l_file, l_logged>>

\* ledger.detect_and_log_closure(...), save_ledger included
LedgerDetectAndLog(hypothesis, pattern, structure, explanation, topic) ==
    LET args == [hypothesis |-> hypothesis, pattern |-> pattern,
                 structure |-> structure]
    IN
    IF detect_closure(hypothesis, pattern, structure)
    THEN LET loop == NewLoop(l_loops, hypothesis, pattern, structure,
                             explanation, topic)
             loops1 == Append(l_loops, loop)
         IN  /\ LedgerStep("log", TRUE, args)
             /\ l_loops' = loops1
             /\ l_file' = Some(ToCsv(loops1))
             /\ l_logged' = Append(l_logged, loop)
    ELSE /\ LedgerStep("log", FALSE, args)
         /\ UNCHANGED <<l_file, l_loops, l_logged>>

\* ledger.save_ledger()
LedgerSave ==
    /\ LedgerStep("save", FALSE, NoArgs)
    /\ l_file' = Some(ToCsv(l_loops))
    /\ UNCHANGED <<l_loops, l_logged>>

\* ledger.load_ledger()
LedgerLoad ==
    /\ LedgerStep("load", FALSE, NoArgs)
    /\ l_loops' = load_ledger(l_loops, l_file)
    /\ UNCHANGED <<l_file, l_logged>>

\* ledger.get_ledger_df()
LedgerGetDf ==
    /\ LedgerStep("df", FALSE, NoArgs)
    /\ UNCHANGED <<l_file, l_loops, l_logged>>

\* somebody else removes the first row of the file
RemoveFirstRow ==
    /\ l_file # None /\ Len(l_file[1]) > 0
    /\ LedgerStep("edit", FALSE, NoArgs)
    /\ l_file' = Some(Tail(l_file[1]))
    /\ UNCHANGED <<l_loops, l_logged>>

Hypotheses == { <<"h">>, <<" ">>, <<"N", "A">>, <<"7">> }
Patterns == { <<"p">>, <<>> }
Structures == { <<"s">> }
Explanations == { <<"e">>, <<>> }
Topics == { <<"t">>, <<>> }

LedgerOthers == <<agentVars, memVars, httpVars, trainVars, closureVars, guardVars,
                  srVars, sgVars, ext2Vars>>

NextLedger ==
    \/ LedgerNew /\ UNCHANGED LedgerOthers
    \/ \E h \in Hypotheses, p \in Patterns, st \in Structures,
          e \in Explanations, t \in Topics :
          LedgerDetectAndLog(h, p, st, e, t) /\ UNCHANGED LedgerOthers
    \/ LedgerSave /\ UNCHANGED LedgerOthers
    \/ LedgerLoad /\ UNCHANGED LedgerOthers
    \/ LedgerGetDf /\ UNCHANGED LedgerOthers

NextLedgerEdited ==
    \/ NextLedger
    \/ RemoveFirstRow /\ UNCHANGED LedgerOthers


----------------------------------------------------------------------------
(* GuardianAgent.scan_ledger (guardian_agent.py)                          *)

REQUIRED_COLUMNS ==
    {"Loop ID", "Topic", "Hypothesis", "Pattern", "Structure", "Why Closed",
     "Timestamp"}

\* the header lines of the files scanned: complete, without Timestamp,
\* without Loop ID, and a file of zero bytes
Headers ==
    {REQUIRED_COLUMNS, REQUIRED_COLUMNS \ {"Timestamp"},
     REQUIRED_COLUMNS \ {"Loop ID"}, {}}

\* a row of the file: the text of its Loop ID cell and of its Hypothesis
\* cell; the cells of the other columns are never empty
GuardRows ==
    [id : {<<"R", "L", "-", "0", "0", "1">>, <<"R", "L", "-", "0", "0", "2">>, <<>>},
     hyp : {<<"h">>, <<>>}]

MaxFileRows == 2

GuardFiles ==
    {[columns |-> c, rows |-> r] :
        c \in Headers,
        r \in UNION {[1 .. n -> GuardRows] : n \in 0 .. MaxFileRows}}

NoReport == [raised |-> "", status |-> "", missing_columns |-> {},
             null_cells |-> 0, duplicated_loop_ids |-> 0]

GuardInit ==
    /\ g_file = None
    /\ g_report = NoReport

\* df.isnull().sum(): the cells read_csv takes for missing, per column present
NullCells(f) ==
    Cardinality({i \in 1 .. Len(f.rows) :
                    "Loop ID" \in f.columns /\ f.rows[i].id \in NAStrings})
    + Cardinality({i \in 1 .. Len(f.rows) :
                    "Hypothesis" \in f.columns /\ f.rows[i].hyp \in NAStrings})

\* df.duplicated(subset=["Loop ID"]).sum(): rows repeating the Loop ID of an
\* earlier row (two missing ids count as equal)
DuplicatedLoops(f) ==
    Cardinality({i \in 1 .. Len(f.rows) :
                    \E j \in 1 .. i - 1 : f.rows[j].id = f.rows[i].id})


\* df.duplicated(subset=["Loop ID"]) raises KeyError when df has no such column
DuplicatedRaises(f) == "Loop ID" \notin f.columns

\* scan_ledger on an existing file
scan_ledger(f) ==
    IF f.columns = {}
    THEN [NoReport EXCEPT !.raised = "EmptyDataError"]
    ELSE IF DuplicatedRaises(f)
    THEN [NoReport EXCEPT !.raised = "KeyError"]
    ELSE LET missing_cols == REQUIRED_COLUMNS \ f.columns
             nulls == NullCells(f)
             duplicate_loops == DuplicatedLoops(f)
         IN  [raised |-> "",
              status |-> IF missing_cols = {} /\ nulls = 0 /\ duplicate_loops = 0
                         THEN "ok" ELSE "warn",
              missing_columns |-> missing_cols,
              null_cells |-> nulls,
              duplicated_loop_ids |-> duplicate_loops]

GuardOthers == <<agentVars, memVars, httpVars, trainVars, closureVars, ledgerVars,
                 srVars, sgVars, ext2Vars>>

\* a ledger file is put at ledger_path
GuardWrite(f) ==
    /\ g_file' = Some(f)
    /\ g_report' = NoReport
    /\ UNCHANGED GuardOthers

\* GuardianAgent(ledger_path).scan_ledger()
GuardScan ==
    /\ g_report' = IF g_file = None
                   THEN [NoReport EXCEPT !.status = "error"]
                   ELSE scan_ledger(g_file[1])
    /\ UNCHANGED g_file
    /\ UNCHANGED GuardOthers

NextGuard ==
    \/ \E f \in GuardFiles : GuardWrite(f)
    \/ GuardScan

----------------------------------------------------------------------------
(* SearchReplaceAgent (search_replace_agent.py) and its command line      *)
(* A file's content is a sequence of one-character tokens; the patterns   *)
(* are the regular expressions that match one such token.                 *)

MaxSrCalls == 2
MaxContent == 2

FilePaths == {"x.py", "y.py"}
Tokens == {"a", "b"}
\* rw: readable and writable; ro: open(path, "w") fails; none: open fails
FileModes == {"rw", "ro", "none"}
Contents == UNION {[1 .. n -> Tokens] : n \in 0 .. MaxContent}
Trees == [FilePaths -> [content : Contents, mode : FileModes]]

NoCall == [op |-> "none", pattern |-> "", repl |-> None, dry_run |-> TRUE,
           apply |-> FALSE]

SrInit ==
    /\ sr_files = [f \in FilePaths |-> [content |-> <<>>, mode |-> "rw"]]
    /\ sr_report = << >>
    /\ sr_last = NoCall
    /\ sr_steps = 0

\* len(list(regex.finditer(content)))
Matches(pattern, content) ==
    Cardinality({i \in 1 .. Len(content) : content[i] = pattern})

RECURSIVE Sub(_, _, _)
\* regex.sub(repl, content); repl is a string of zero or one token
Sub(pattern, repl, content) ==
    IF content = <<>> THEN <<>>
    ELSE (IF Head(content) = pattern THEN repl ELSE <<Head(content)>>)
         \o Sub(pattern, repl, Tail(content))

ReplaceFile_AlwaysWrite(file, pattern, repl, dry_run) ==
    LET n == Matches(pattern, file.content)
    IN  IF file.mode = "none" \/ n = 0
        THEN [file |-> file, entry |-> None]
        ELSE [file |-> [file EXCEPT !.content = Sub(pattern, repl, file.content)],
              entry |-> Some([key |-> "matches", count |-> n])]

\* the body of the loop of replace for one file: the file afterwards and the
\* entry appended to changes, if any; an exception skips the file
ReplaceFile(file, pattern, repl, dry_run) ==
    LET n == Matches(pattern, file.content)
    IN  IF file.mode = "none" \/ n = 0
        THEN [file |-> file, entry |-> None]
        ELSE IF dry_run
        THEN [file |-> file, entry |-> Some([key |-> "matches", count |-> n])]
        ELSE IF file.mode = "ro"
        THEN [file |-> file, entry |-> None]
        ELSE [file |-> [file EXCEPT !.content = Sub(pattern, repl, file.content)],
              entry |-> Some([key |-> "changes", count |-> n])]

\* SearchReplaceAgent.replace: the tree afterwards and the changes returned,
\* as a mapping from the files listed to their entries
replace(files, pattern, repl, dry_run) ==
    LET r == [f \in FilePaths |-> ReplaceFile(files[f], pattern, repl, dry_run)]
        listed == {f \in FilePaths : r[f].entry # None}
    IN  [files |-> [f \in FilePaths |-> r[f].file],
         changes |-> [f \in listed |-> r[f].entry[1]]]

\* SearchReplaceAgent.search: the files with a matching line (read only)
search(files, pattern) ==
    LET listed == {f \in FilePaths :
                      files[f].mode # "none" /\ Matches(pattern, files[f].content) > 0}
    IN  [f \in listed |-> [key |-> "lines", count |-> 1]]

SrOthers == <<agentVars, memVars, httpVars, trainVars, closureVars, ledgerVars,
              guardVars, sgVars, ext2Vars>>

\* the tree under repo_root is set up
SrSetup(tree) ==
    /\ sr_steps = 0 /\ sr_last = NoCall
    /\ sr_files' = tree
    /\ UNCHANGED <<sr_report, sr_last, sr_steps>>
    /\ UNCHANGED SrOthers

SrCallStarts(call) ==
    /\ sr_steps < MaxSrCalls
    /\ sr_steps' = sr_steps + 1
    /\ sr_last' = call

\* agent.replace(pattern, repl, dry_run=dry_run)
SrReplace(pattern, repl, dry_run) ==
    /\ SrCallStarts([NoCall EXCEPT !.op = "replace", !.pattern = pattern,
                                   !.repl = Some(repl), !.dry_run = dry_run])
    /\ LET r == replace(sr_files, pattern, repl, dry_run)
       IN  sr_files' = r.files /\ sr_report' = r.changes
    /\ UNCHANGED SrOthers

\* python scripts/search_and_replace.py --pattern P [--repl R] [--apply]
SrCli(pattern, repl, apply) ==
    /\ SrCallStarts([NoCall EXCEPT !.op = "cli", !.pattern = pattern,
                                   !.repl = repl, !.apply = apply,
                                   !.dry_run = ~apply])
    /\ IF repl # None /\ repl[1] # <<>>
       THEN LET r == replace(sr_files, pattern, repl[1], ~apply)
            IN  sr_files' = r.files /\ sr_report' = r.changes
       ELSE sr_files' = sr_files /\ sr_report' = search(sr_files, pattern)
    /\ UNCHANGED SrOthers

Repls == {<<>>, <<"a">>, <<"b">>}

NextSr ==
    \/ \E tree \in Trees : SrSetup(tree)
    \/ \E pattern \in Tokens, repl \in Repls, dry_run \in BOOLEAN :
          SrReplace(pattern, repl, dry_run)
    \/ \E pattern \in Tokens, repl \in {None} \cup {Some(x) : x \in Repls},
          apply \in BOOLEAN : SrCli(pattern, repl, apply)

----------------------------------------------------------------------------
(* BaseAgent._stabilized_generate: the retry loop around llm_client.generate *)
(* Durations are in milliseconds.                                            *)

MaxSgCalls == 2

\* self._stabilizer_max_retries
stabilizer_max_retries == 2
\* self._stabilizer_backoff_sec, 0.3 s
stabilizer_backoff_ms == 300

NoResult == [kind |-> "none", value |-> ""]
GenerateEvent(out, text) == [ev |-> "generate", out |-> out, text |-> text, ms |-> 0]
SleepEvent(ms) == [ev |-> "sleep", out |-> "", text |-> "", ms |-> ms]

SgInit ==
    /\ sg_pc = "idle"
    /\ sg_attempt = 0
    /\ sg_last_exc = None
    /\ sg_trace = << >>
    /\ sg_result = NoResult
    /\ sg_calls = 0

Backoff_Constant(attempt) == stabilizer_backoff_ms

\* self._stabilizer_backoff_sec * (2**attempt)
Backoff(attempt) == stabilizer_backoff_ms * 2 ^ attempt

\* if attempt >= self._stabilizer_max_retries: break
LastAttempt(attempt) == attempt >= stabilizer_max_retries

SgOthers == <<agentVars, memVars, httpVars, trainVars, closureVars, ledgerVars,
              guardVars, srVars, ext2Vars>>

\* _stabilized_generate is called: range(max_retries + 1) starts at 0
SgCall ==
    /\ sg_pc \in {"idle", "done"}
    /\ sg_calls < MaxSgCalls
    /\ sg_calls' = sg_calls + 1
    /\ sg_attempt' = 0
    /\ sg_last_exc' = None
    /\ sg_trace' = << >>
    /\ sg_result' = NoResult
    /\ sg_pc' = "generate"
    /\ UNCHANGED SgOthers

\* return await self.llm_client.generate(...)
SgGenerateReturn(reply) ==
    /\ sg_pc = "generate"
    /\ sg_trace' = Append(sg_trace, GenerateEvent("ok", reply))
    /\ sg_result' = [kind |-> "returned", value |-> reply]
    /\ sg_pc' = "done"
    /\ UNCHANGED <<sg_attempt, sg_last_exc, sg_calls, SgOthers>>

\* generate raised e: except Exception as e, then break and raise last_exc,
\* or the call of asyncio.sleep
SgGenerateRaise(e) ==
    /\ sg_pc = "generate"
    /\ sg_last_exc' = Some(e)
    /\ IF LastAttempt(sg_attempt)
       THEN /\ sg_trace' = Append(sg_trace, GenerateEvent("raised", e))
            /\ sg_result' = [kind |-> "raised", value |-> e]
            /\ sg_pc' = "done"
       ELSE /\ sg_trace' = sg_trace \o <<GenerateEvent("raised", e),
                                          SleepEvent(Backoff(sg_attempt))>>
            /\ sg_pc' = "sleep"
            /\ UNCHANGED sg_result
    /\ UNCHANGED <<sg_attempt, sg_calls, SgOthers>>

\* asyncio.sleep returned: the next value of range(max_retries + 1)
SgSleepReturn ==
    /\ sg_pc = "sleep"
    /\ sg_attempt' = sg_attempt + 1
    /\ sg_pc' = "generate"
    /\ UNCHANGED <<sg_last_exc, sg_trace, sg_result, sg_calls, SgOthers>>

NextSg ==
    \/ SgCall
    \/ \E reply \in Texts : SgGenerateReturn(reply)
    \/ \E e \in ExcTexts \cup {"late"} : SgGenerateRaise(e)
    \/ SgSleepReturn

----------------------------------------------------------------------------
(* BaseAgent.chat called by several tasks of one event loop: a call runs  *)
(* without interruption up to `await self.llm_client.generate(...)` and   *)
(* from the resumption to its return                                      *)

MaxChatCalls == 3
Tasks == {"A", "B"}
ChatReplies == {"ra", "rb"}
SystemPrompt == Message("system", "sys")

IdleTask == [pc |-> "idle", msg |-> "", sent |-> << >>, outcome |-> "none",
             reply |-> "", at |-> 0, reply_at |-> 0, between |-> 0]

\* AgentConfig defaults: enable_memory on, system_prompt None
DefaultChatConfig == [enable_memory |-> TRUE, system_prompt |-> FALSE]
ChatConfigs == [enable_memory : BOOLEAN, system_prompt : BOOLEAN]

CcFields(configs) ==
    /\ cc_config \in configs
    /\ cc_history = << >>
    /\ cc_short_term = << >>
    /\ cc_tasks = [t \in Tasks |-> IdleTask]
    /\ cc_calls = 0

CcInit == CcFields({DefaultChatConfig})

Ext2Others == <<agentVars, memVars, httpVars, trainVars, closureVars, ledgerVars,
                guardVars, srVars, sgVars>>
CcOthers == <<Ext2Others, tlVars, caVars, slVars>>

HistoryAfterUser_Deferred(history, msg) == history

\* self.conversation_history.append(user_message)
HistoryAfterUser(history, msg) == Append(history, Message("user", msg))

\* the list chat passes to generate: the system prompt if set, then
\* memory.get_context() when the agent has a memory, else
\* conversation_history[-10:]
ChatMessages(config, history, st) ==
    (IF config.system_prompt THEN <<SystemPrompt>> ELSE << >>)
    \o (IF config.enable_memory THEN get_context(st)
        ELSE PySliceFrom(history, 0 - 10))

\* the calls that wait in generate while another call appends to the history
Overtaken(tasks, t) ==
    [u \in Tasks |->
        IF u # t /\ tasks[u].pc = "generate"
        THEN [tasks[u] EXCEPT !.between = @ + 1] ELSE tasks[u]]

\* chat(msg) of task t up to the await of generate
CcChatBegin(t, msg) ==
    /\ cc_tasks[t].pc \in {"idle", "done"}
    /\ cc_calls < MaxChatCalls
    /\ cc_calls' = cc_calls + 1
    /\ LET history1 == HistoryAfterUser(cc_history, msg)
       IN  /\ cc_history' = history1
           /\ cc_tasks' =
                  [Overtaken(cc_tasks, t) EXCEPT
                     ![t] = [IdleTask EXCEPT
                               !.pc = "generate", !.msg = msg,
                               !.sent = ChatMessages(cc_config, history1,
                                                     cc_short_term),
                               !.at = Len(cc_history) + 1]]
    /\ UNCHANGED <<cc_config, cc_short_term, CcOthers>>

\* generate returned reply to task t: history, memory, COMPLETED, response
CcGenerateReturn(t, reply) ==
    /\ cc_tasks[t].pc = "generate"
    /\ cc_history' = Append(cc_history, Message("assistant", reply))
    /\ cc_short_term' =
           IF cc_config.enable_memory
           THEN MemoryAfterCycle(cc_short_term, DefaultMaxShortTerm,
                                 cc_tasks[t].msg, reply)
           ELSE cc_short_term
    /\ cc_tasks' = [Overtaken(cc_tasks, t) EXCEPT
                       ![t].pc = "done", ![t].outcome = "returned",
                       ![t].reply = reply,
                       ![t].reply_at = Len(cc_history) + 1]
    /\ UNCHANGED <<cc_config, cc_calls, CcOthers>>

\* generate raised in task t: except Exception
CcGenerateRaise(t) ==
    /\ cc_tasks[t].pc = "generate"
    /\ cc_tasks' = [cc_tasks EXCEPT ![t].pc = "done", ![t].outcome = "error"]
    /\ UNCHANGED <<cc_config, cc_history, cc_short_term, cc_calls, CcOthers>>

NextChats ==
    \/ \E t \in Tasks, msg \in Texts : CcChatBegin(t, msg)
    \/ \E t \in Tasks, reply \in ChatReplies : CcGenerateReturn(t, reply)
    \/ \E t \in Tasks : CcGenerateRaise(t)

----------------------------------------------------------------------------
(* AdaptiveTrainingManager.create_training_loop and _simulate_training    *)
(* A record of the training data is TRUE when it has the key "caption".   *)

MaxRecords == 11
MaxEpochs == 3
MaxLoopCalls == 2

\* lists of up to MaxRecords records of which none, one, or two in a row
\* have a caption
TrainingData ==
    UNION {{[i \in 1 .. n |-> i = j \/ (both /\ i = j + 1)] :
               j \in 0 .. n, both \in BOOLEAN} : n \in 0 .. MaxRecords}

\* the counters of training_metrics
NoMetrics == [iterations |-> 0, closures |-> 0]

TlInit ==
    /\ tl_data = << >>
    /\ tl_epochs = 0
    /\ tl_epoch = 0
    /\ tl_pc = "idle"
    /\ tl_metrics = NoMetrics
    /\ tl_rows = 0
    /\ tl_loops_closed = << >>
    /\ tl_before = NoMetrics
    /\ tl_calls = 0

TlOthers == <<Ext2Others, ccVars, caVars, slVars>>

\* training_data[:10]
Sample(data) == SubSeq(data, 1, Min(Len(data), 10))

simulate_training_EveryRecord(data, epoch) ==
    LET sample == Sample(data)
        found(i) == sample[i] /\ epoch > 0
    IN  SelectSeq([i \in 1 .. Len(sample) |->
                      IF found(i) THEN <<epoch, i - 1>> ELSE << >>],
                  LAMBDA pat : pat # << >>)

\* _simulate_training: the patterns Pattern_{epoch}_{idx}, as <<epoch, idx>>,
\* for idx, data in enumerate(training_data[:10])
simulate_training(data, epoch) ==
    LET sample == Sample(data)
        found(i) == sample[i] /\ epoch > 0 /\ (i - 1) % 3 = 0
    IN  SelectSeq([i \in 1 .. Len(sample) |->
                      IF found(i) THEN <<epoch, i - 1>> ELSE << >>],
                  LAMBDA pat : pat # << >>)

\* create_training_loop(model_name, data, epochs) is called
TlCall(data, epochs) ==
    /\ tl_pc \in {"idle", "done"}
    /\ tl_calls < MaxLoopCalls
    /\ tl_calls' = tl_calls + 1
    /\ tl_data' = data
    /\ tl_epochs' = epochs
    /\ tl_epoch' = 0
    /\ tl_loops_closed' = << >>
    /\ tl_before' = tl_metrics
    /\ tl_pc' = "loop"
    /\ UNCHANGED <<tl_metrics, tl_rows, TlOthers>>

\* one pass of `for epoch in range(epochs)`; the tuple handed to
\* detect_and_log_closure is made of non-blank strings, so it is logged
TlEpoch ==
    /\ tl_pc = "loop"
    /\ tl_epoch < tl_epochs
    /\ LET patterns_found == simulate_training(tl_data, tl_epoch)
           closed == patterns_found # << >>
                     /\ detect_closure(<<"M">>, <<"F">>, <<"E">>)
       IN  /\ tl_rows' = IF closed THEN tl_rows + 1 ELSE tl_rows
           /\ tl_loops_closed' =
                  IF closed
                  THEN Append(tl_loops_closed,
                              [epoch |-> tl_epoch + 1,
                               patterns |-> patterns_found])
                  ELSE tl_loops_closed
           /\ tl_metrics' =
                  [iterations |-> tl_metrics.iterations + 1,
                   closures |-> tl_metrics.closures + (IF closed THEN 1 ELSE 0)]
    /\ tl_epoch' = tl_epoch + 1
    /\ UNCHANGED <<tl_data, tl_epochs, tl_pc, tl_before, tl_calls, TlOthers>>

\* range(epochs) is exhausted: return results
TlReturn ==
    /\ tl_pc = "loop"
    /\ tl_epoch >= tl_epochs
    /\ tl_pc' = "done"
    /\ UNCHANGED <<tl_data, tl_epochs, tl_epoch, tl_metrics, tl_rows,
                   tl_loops_closed, tl_before, tl_calls, TlOthers>>

NextTrainingLoop ==
    \/ \E data \in TrainingData, epochs \in 0 .. MaxEpochs : TlCall(data, epochs)
    \/ TlEpoch
    \/ TlReturn

----------------------------------------------------------------------------
(* AudioProcessor.chunk_audio (audio_utils.py); lengths in milliseconds   *)

MaxAudioMs == 4
MaxChunkMs == 3
MaxOverlapMs == 3

\* a loop that advances start by at least 1 from 0 appends at most
\* len(audio) chunks; a call that has made one more pass and is still in the
\* loop has a step <= 0 and stays in it. The model records the chunks of the
\* first len(audio) + 1 passes; the later passes are taken and only flip
\* ca_spin.
MaxChunks(args) == args.len + 1

NoChunkArgs == [len |-> 0, chunk_length_ms |-> 1, overlap_ms |-> 0]

CaInit ==
    /\ ca_args = NoChunkArgs
    /\ ca_start = 0
    /\ ca_chunks = << >>
    /\ ca_pc = "idle"
    /\ ca_spin = FALSE

CaOthers == <<Ext2Others, ccVars, tlVars, slVars>>

\* chunk_audio(audio, chunk_length_ms, overlap_ms): chunks = [], start = 0
CaCall(len, chunk_length_ms, overlap_ms) ==
    /\ ca_pc = "idle"
    /\ ca_args' = [len |-> len, chunk_length_ms |-> chunk_length_ms,
                   overlap_ms |-> overlap_ms]
    /\ ca_start' = 0
    /\ ca_chunks' = << >>
    /\ ca_pc' = "loop"
    /\ ca_spin' = FALSE
    /\ UNCHANGED CaOthers

\* one pass of `while start < len(audio)`, with its `break`
CaIterate ==
    /\ ca_pc = "loop"
    /\ ca_start < ca_args.len
    /\ LET end == Min(ca_start + ca_args.chunk_length_ms, ca_args.len)
           start1 == ca_start + (ca_args.chunk_length_ms - ca_args.overlap_ms)
       IN  IF Len(ca_chunks) < MaxChunks(ca_args)
           THEN /\ ca_chunks' = Append(ca_chunks, <<ca_start, end>>)
                /\ ca_start' = start1
                /\ ca_pc' = IF start1 >= ca_args.len THEN "done" ELSE "loop"
                /\ UNCHANGED ca_spin
           ELSE /\ start1 < ca_args.len
                /\ ca_spin' = ~ca_spin
                /\ UNCHANGED <<ca_start, ca_chunks, ca_pc>>
    /\ UNCHANGED <<ca_args, CaOthers>>

\* the while condition is false on entry: return chunks
CaReturn ==
    /\ ca_pc = "loop"
    /\ ~(ca_start < ca_args.len)
    /\ ca_pc' = "done"
    /\ UNCHANGED <<ca_args, ca_start, ca_chunks, ca_spin, CaOthers>>

CaStep == CaIterate \/ CaReturn

NextChunkAudio ==
    \/ \E len \in 0 .. MaxAudioMs, chunk_length_ms \in 1 .. MaxChunkMs,
          overlap_ms \in 0 .. MaxOverlapMs :
           CaCall(len, chunk_length_ms, overlap_ms)
    \/ CaIterate
    \/ CaReturn

----------------------------------------------------------------------------
(* Several RecursiveLoopClosureLedger instances on one file: every        *)
(* AdaptiveTrainingManager builds its ledger on                           *)
(* training_closure_ledger.csv. Constructions and detect_and_log_closure  *)
(* calls have no suspension point, so each is one step.                   *)

MaxSharedOps == 6
Instances == {"m1", "m2"}

SlInit ==
    /\ sl_file = None
    /\ sl_inst = [i \in Instances |-> [built |-> FALSE, loops |-> << >>]]
    /\ sl_accepted = << >>
    /\ sl_ops = 0

SlOthers == <<Ext2Others, ccVars, tlVars, caVars>>

\* the hypothesis of the n-th call: distinct non-blank texts, or a blank
SlHypothesis(valid) ==
    IF valid THEN <<"h">> \o Decimal(sl_ops + 1) \o <<"x">> ELSE <<" ">>

\* RecursiveLoopClosureLedger(ledger_file="training_closure_ledger.csv")
SlConstruct(i) ==
    /\ sl_ops < MaxSharedOps
    /\ ~sl_inst[i].built
    /\ sl_ops' = sl_ops + 1
    /\ sl_inst' = [sl_inst EXCEPT
                      ![i] = [built |-> TRUE,
                              loops |-> load_ledger(<< >>, sl_file)]]
    /\ UNCHANGED <<sl_file, sl_accepted, SlOthers>>

\* instance i: detect_and_log_closure(...), save_ledger included
SlDetectAndLog(i, valid) ==
    /\ sl_ops < MaxSharedOps
    /\ sl_inst[i].built
    /\ sl_ops' = sl_ops + 1
    /\ LET h == SlHypothesis(valid)
       IN  IF detect_closure(h, <<"p">>, <<"s">>)
           THEN LET loop == NewLoop(sl_inst[i].loops, h, <<"p">>, <<"s">>,
                                    <<"e">>, <<"t">>)
                    loops1 == Append(sl_inst[i].loops, loop)
                IN  /\ sl_inst' = [sl_inst EXCEPT ![i].loops = loops1]
                    /\ sl_file' = Some(ToCsv(loops1))
                    /\ sl_accepted' = Append(sl_accepted, [by |-> i, hypothesis |-> h])
           ELSE UNCHANGED <<sl_inst, sl_file, sl_accepted>>
    /\ UNCHANGED SlOthers

NextSharedLedger ==
    \/ \E i \in Instances : SlConstruct(i)
    \/ \E i \in Instances, valid \in BOOLEAN : SlDetectAndLog(i, valid)

Ext1Init == LedgerInit /\ GuardInit /\ SrInit /\ SgInit

Ext2Init == CcInit /\ TlInit /\ CaInit /\ SlInit

ExtInit == Ext1Init /\ Ext2Init

----------------------------------------------------------------------------
(* Specifications *)

\* everything but the agent object, as it is when the process has started
RestInit == m_added = <<>> /\ HttpInit /\ TrainingInit /\ ClosureInit /\ ExtInit

\* an agent built from the default AgentConfig
DefaultAgent ==
    AgentInit /\ enable_memory = TRUE /\ enable_recursive_closure = TRUE

InitAgent == AgentInit /\ RestInit
InitMemory == MemoryInit /\ RestInit
InitServer == DefaultAgent /\ RestInit

\* agents of every chat configuration
InitChats ==
    /\ DefaultAgent /\ m_added = <<>> /\ HttpInit /\ TrainingInit /\ ClosureInit
    /\ Ext1Init /\ CcFields(ChatConfigs) /\ TlInit /\ CaInit /\ SlInit

\* start_training seen as a function of the two stores: every status the
\* status field takes, for every subset of the names
InitAnyStores ==
    /\ DefaultAgent /\ m_added = <<>> /\ HttpInit /\ ClosureInit /\ ExtInit
    /\ training_file_rows = 0
    /\ \E S \in SUBSET Names :
          /\ training_status \in
                [S -> {StatusRec(st, None) : st \in TrainingStatuses}]
          /\ training_managers = [n \in S |-> NewManager(1)]
    /\ next_manager = 1
    /\ jobs = {}
    /\ next_job = 0
    /\ finished = {}
    /\ t_req = NoTrainingReq
    /\ t_status = 0

SpecAgent == InitAgent /\ [][NextAgent]_vars

SpecAgentTyped == InitAgent /\ [][NextAgentTyped]_vars

SpecClearMemory == InitAgent /\ [][NextClearMemory]_vars

SpecMemory == InitMemory /\ [][NextMemory]_vars

SpecStore == InitServer /\ [][NextStore]_vars

SpecUpload == InitServer /\ [][NextUpload]_vars

SpecRate == InitServer /\ [][NextRate]_vars

SpecLimiterFaults == InitServer /\ [][NextLimiterFaults]_vars

SpecTraining == InitServer /\ [][NextTraining]_vars

SpecStartTraining == InitAnyStores /\ [][NextTraining]_vars

SpecClosure == InitServer /\ [][NextClosure]_vars

SpecLedger == InitServer /\ [][NextLedger]_vars

SpecLedgerEdited == InitServer /\ [][NextLedgerEdited]_vars

SpecGuard == InitServer /\ [][NextGuard]_vars

SpecSearchReplace == InitServer /\ [][NextSr]_vars

SpecStabilizedGenerate == InitServer /\ [][NextSg]_vars

SpecTrainingLoop == InitServer /\ [][NextTrainingLoop]_vars

\* the loop of a call in flight is executed (weak fairness of its passes)
SpecChunkAudio ==
    InitServer /\ [][NextChunkAudio]_vars /\ WF_vars(CaStep)

SpecSharedLedger == InitServer /\ [][NextSharedLedger]_vars

SpecChats == InitChats /\ [][NextChats]_vars

----------------------------------------------------------------------------
(* Claims *)

RunTransitions ==
    {<<"thinking", "executing">>, <<"executing", "completed">>,
     <<"thinking", "error">>, <<"executing", "error">>}

\* C1: during run the state moves only thinking -> executing -> completed, or
\* to error from thinking or executing; think is awaited in state thinking,
\* act and observe in state executing; completed is set only by the step in
\* which observe returned; no call sequence reaches state waiting.
C1_RunStateMachine ==
    /\ [](state # "waiting")
    /\ [](a_op = "run" /\ a_pc = "think" => state = "thinking")
    /\ [](a_op = "run" /\ a_pc \in {"act", "observe"} => state = "executing")
    /\ [][a_op # "run" /\ a_op' = "run" => state' = "thinking"]_vars
    /\ [][a_op = "run" /\ state' # state => <<state, state'>> \in RunTransitions]_vars
    /\ [][a_op = "run" /\ state' = "completed" => a_pc = "observe"]_vars

C1_Witness ==
    /\ a_calls = 1 /\ a_op = "none"
    /\ state = "completed" /\ response.state = "completed"
    /\ closed_loops = 1

CallEndedByException == a_op = "none" /\ a_exc # None

\* C2 (as stated): run and chat never raise; after think, act, observe or
\* generate raised, the response has state "error", its error field is the
\* non-empty exception text, and the agent is in state error.
C2_ErrorNonEmpty ==
    /\ a_outcome # "raised"
    /\ CallEndedByException =>
          /\ a_outcome = "returned"
          /\ response.state = "error"
          /\ response.error = Some(ExcStr(a_exc[1]))
          /\ response.error[1] # ""
          /\ state = "error"

\* C2 (amended): run and chat never raise; after think, act, observe or
\* generate raised an Exception, the response has state "error", its error
\* field is str(e) (which is empty for an exception without a message), and
\* the agent is in state error.
C2_ErrorIsExceptionText ==
    /\ a_outcome # "raised"
    /\ CallEndedByException =>
          /\ a_outcome = "returned"
          /\ response.state = "error"
          /\ response.error = Some(ExcStr(a_exc[1]))
          /\ state = "error"

C2_Witness ==
    /\ CallEndedByException
    /\ a_exc = Some("boom")
    /\ response.error = Some("boom")
    /\ state = "error"

\* the last n elements of s (all of s when it is shorter)
LastN(s, n) == SubSeq(s, Len(s) - Min(Len(s), n) + 1, Len(s))

CallEnds == a_op # "none" /\ a_op' = "none"

\* C3: short-term memory changes only in the step that ends a call
\* successfully; a call that ends in error leaves it unchanged; a successful
\* chat, and a successful run on plain text, appends the user message followed
\* by the assistant reply (within the capacity); a run on another input
\* appends nothing.
C3_MemoryAfterSuccess ==
    [][ /\ short_term' # short_term =>
             CallEnds /\ enable_memory /\ response'.state = "completed"
        /\ CallEnds /\ response'.state = "error" => short_term' = short_term
        /\ CallEnds /\ response'.state = "completed" /\ enable_memory
             /\ (a_op = "chat" \/ a_input.kind = "str") =>
             short_term' =
                LastN(short_term \o <<Message("user", a_input.text),
                                      Message("assistant", response'.content[1])>>,
                      max_short_term_size)
        /\ CallEnds /\ a_op = "run" /\ a_input.kind # "str" =>
             short_term' = short_term
      ]_vars

C3_Witness ==
    /\ a_calls = 3 /\ a_op = "none"
    /\ response.state = "error"
    /\ Len(short_term) = 4
    /\ short_term[3] = Message("user", "yo")
    /\ short_term[4] = Message("assistant", "ok")

\* C4 (as stated): for every capacity N >= 0, after k add_to_short_term calls
\* short_term holds exactly the last min(N, k) messages added, in order, so
\* its length never exceeds N.
C4_LastMessagesKept ==
    /\ short_term = LastN(m_added, max_short_term_size)
    /\ Len(short_term) <= max_short_term_size

IsUpload(req) == req.kind = "process_image"

\* the agent addressed by the upload exists and has process_image
VisionAgent(req) ==
    /\ req.key \in DOMAIN agent_store
    /\ agent_store[req.key].type = "multimodal"

BadExtension(req) ==
    /\ req.filename # <<>>
    /\ \A i \in 1 .. Len(allowed_image_extensions) :
          ~EndsWith(Lower(req.filename), allowed_image_extensions[i])

\* C5 (as stated): an upload whose file name extension is not allowed is
\* answered 400, an upload whose body exceeds the maximum size is answered
\* 413, and neither reaches agent.process_image.
C5_UploadRejected ==
    IsUpload(last_req) /\ VisionAgent(last_req) =>
        /\ BadExtension(last_req) /\ last_req.body_size <= max_file_size_bytes =>
              last_status = 400 /\ ~image_invoked
        /\ ~BadExtension(last_req) /\ last_req.body_size > max_file_size_bytes =>
              last_status = 413 /\ ~image_invoked

\* the limiter evaluations of client c among the first i log entries that
\* fall into the window opened by the first request
InFirstWindow(i) ==
    /\ http_log[i].limiter
    /\ http_log[i].time - http_log[1].time <= rate_limit_period

SeenInFirstWindow(c, i) ==
    Cardinality({j \in 1 .. i : InFirstWindow(j) /\ http_log[j].client = c})

\* C6 (as stated): with rate limiting enabled, every request of a client
\* beyond rate_limit_requests in one window is answered 429 (here: in the
\* window the first request opens).
C6_ExcessLimited ==
    \A i \in 1 .. Len(http_log) :
        InFirstWindow(i)
        /\ SeenInFirstWindow(http_log[i].client, i) > rate_limit_requests
        => http_log[i].status = 429

IdRoutes == {"get", "chat", "invoke", "clear_memory", "delete"}

RequestStep == http_log' # http_log

\* C7: an id created by POST /agents stays in the store until its DELETE is
\* answered 200 (or the application shuts down); from then on GET, chat,
\* invoke, clear-memory and DELETE on it are answered 404; a DELETE removes
\* that key only.
C7_AgentLifetime ==
    /\ [](app_running =>
            \A k \in UuidKeys :
               k \in DOMAIN agent_store <=> k \in h_created \ h_deleted)
    /\ [][RequestStep /\ last_req'.kind \in IdRoutes /\ last_req'.key \in UuidKeys
          /\ last_req'.key \in h_deleted => last_status' = 404]_vars
    /\ [][RequestStep /\ last_req'.kind = "delete" /\ last_status' = 200 =>
             /\ last_req'.key \in DOMAIN agent_store
             /\ DOMAIN agent_store' = DOMAIN agent_store \ {last_req'.key}
             /\ \A k \in DOMAIN agent_store' : agent_store'[k] = agent_store[k]]_vars

C7_Witness ==
    /\ last_req.kind = "get" /\ last_req.key = UuidKey(1) /\ last_status = 404
    /\ UuidKey(1) \in h_deleted
    /\ UuidKey(2) \in DOMAIN agent_store

StartStep == t_req'.seq # t_req.seq /\ t_req'.kind = "start"

\* C8: a start for a name whose status is "training" is rejected and changes
\* neither store and schedules nothing; any other start stores a new manager
\* under the name, sets its status to "initializing" and schedules exactly
\* one background job for it.
C8_StartTraining ==
    [][StartStep =>
         LET n == t_req'.name
         IN  IF n \in DOMAIN training_status /\ training_status[n].status = "training"
             THEN /\ t_status' >= 400
                  /\ UNCHANGED <<training_managers, training_status, jobs>>
             ELSE /\ t_status' = 200
                  /\ n \in DOMAIN training_managers'
                  /\ training_managers'[n].id > next_manager
                  /\ \A o \in DOMAIN training_managers \ {n} :
                        /\ o \in DOMAIN training_managers'
                        /\ training_managers'[o] = training_managers[o]
                  /\ n \in DOMAIN training_status'
                  /\ training_status'[n].status = "initializing"
                  /\ \E j \in jobs' \ jobs :
                        j.name = n /\ jobs' = jobs \cup {j}
      ]_vars

C8_Witness ==
    /\ t_req.kind = "start" /\ t_req.seq = 2
    /\ t_status = 500
    /\ t_req.name \in DOMAIN training_status
    /\ training_status[t_req.name].status = "training"
    /\ Cardinality(jobs) = 1

JobOrder == <<"loading_data", "training", "validating", "completed">>

\* C9 (as stated): every job starts from "initializing", writes loading_data,
\* training, validating, completed in that order or ends with failed, and
\* never ends with an unhandled exception.
C9_JobOutcome ==
    \A r \in finished :
        /\ r.outcome \in {"completed", "failed"}
        /\ r.from = "initializing"
        /\ \/ r.trace = JobOrder
           \/ \E k \in 0 .. 3 : r.trace = Append(SubSeq(JobOrder, 1, k), "failed")

ClosureAnswered == c_req.seq > 0

\* C10 (as stated): a tuple that fails the acceptance heuristic is answered
\* 400 and no such row is in the file; an accepted tuple is answered with
\* success, the row count of the file, and the loop id of the row appended.
C10_ClosureResponse ==
    /\ \A i \in 1 .. Len(manual_file) :
          detect_closure(manual_file[i].hypothesis, manual_file[i].pattern,
                         manual_file[i].structure)
    /\ ClosureAnswered =>
          IF detect_closure(c_req.hypothesis, c_req.pattern, c_req.structure)
          THEN /\ c_resp.status = 200 /\ c_resp.success
               /\ c_resp.total_loops = Len(manual_file)
               /\ c_resp.loop_id = manual_file[Len(manual_file)].loop_id
          ELSE c_resp.status = 400

ResetStep == t_req'.seq # t_req.seq /\ t_req'.kind = "reset"

\* C11: a reset succeeds in every state, removes the manager entry and the
\* status entry of its name, leaves the entries of every other name as they
\* were, and a reset that follows a reset of the same name changes nothing.
C11_ResetIdempotent ==
    [][ResetStep =>
         LET n == t_req'.name
         IN  /\ t_status' = 200
             /\ DOMAIN training_managers' = DOMAIN training_managers \ {n}
             /\ DOMAIN training_status' = DOMAIN training_status \ {n}
             /\ \A o \in DOMAIN training_managers' :
                   training_managers'[o] = training_managers[o]
             /\ \A o \in DOMAIN training_status' :
                   training_status'[o] = training_status[o]
             /\ t_req.kind = "reset" /\ t_req.name = n =>
                   UNCHANGED <<training_managers, training_status>>
      ]_vars

C11_Witness ==
    /\ t_req.kind = "reset" /\ t_req.seq = 2 /\ t_status = 200
    /\ t_req.name \notin DOMAIN training_managers
    /\ t_req.name \notin DOMAIN training_status
    /\ \E o \in Names : o \in DOMAIN training_managers /\ o \in DOMAIN training_status
    /\ \E r \in finished : r.name = t_req.name /\ r.outcome = "completed"

LogStep == l_steps' # l_steps /\ l_last'.op = "log"

\* RL-00k, for k < 10
ExpectedId(k) == <<"R", "L", "-", "0", "0", DigitChars[k + 1]>>

FileRows(file) == IF file = None THEN <<>> ELSE file[1]

\* C12: detect_and_log_closure returns false and adds no row, in memory or in
\* the file, when hypothesis, pattern or structure is blank; otherwise it
\* returns true and appends exactly one row whose id is RL-(n+1) padded to
\* three digits, n being the row count before the call.
C12_DetectAndLog ==
    [][LogStep =>
         LET a == l_last'.args
             n == Len(l_loops)
         IN  IF IsBlank(a.hypothesis) \/ IsBlank(a.pattern) \/ IsBlank(a.structure)
             THEN /\ l_last'.ret = FALSE
                  /\ l_loops' = l_loops
                  /\ l_file' = l_file
             ELSE /\ l_last'.ret = TRUE
                  /\ Len(l_loops') = n + 1
                  /\ SubSeq(l_loops', 1, n) = l_loops
                  /\ l_loops'[n + 1].loop_id = Str(ExpectedId(n + 1))
                  /\ l_loops'[n + 1].hypothesis = Str(a.hypothesis)
                  /\ Len(FileRows(l_file')) = Len(FileRows(l_file)) + 1
                  /\ FileRows(l_file')[n + 1].loop_id = ExpectedId(n + 1)
      ]_vars

C12_Witness ==
    /\ l_last.op = "log" /\ l_last.ret
    /\ Len(l_loops) = 2
    /\ l_loops[2].loop_id = Str(<<"R", "L", "-", "0", "0", "2">>)
    /\ Len(FileRows(l_file)) = 2

\* C13 (as stated): no two rows ever logged to the ledger receive the same
\* id, whatever closures, re-hydrations and removals of rows from the file
\* happened in between.
C13_IdsNeverReused ==
    \A i \in 1 .. Len(l_logged) : \A j \in 1 .. Len(l_logged) :
        i # j => l_logged[i].loop_id # l_logged[j].loop_id

\* C14 (as stated): a new ledger instance on the same path holds exactly the
\* rows that were logged, in order, with identical id, topic, hypothesis,
\* pattern, structure and explanation.
C14_ReloadLossless ==
    l_last.op = "new" => l_loops = l_logged

\* C15 (as stated): no ledger operation removes, reorders or changes a row
\* the ledger holds in memory or in its file; both only grow at the end.
C15_AppendOnly ==
    [][ l_last'.op \in {"log", "save", "load", "df"} =>
        /\ Len(l_loops') >= Len(l_loops)
        /\ SubSeq(l_loops', 1, Len(l_loops)) = l_loops
        /\ Len(FileRows(l_file')) >= Len(FileRows(l_file))
        /\ SubSeq(FileRows(l_file'), 1, Len(FileRows(l_file))) = FileRows(l_file)
      ]_vars

Scanned == g_file # None /\ g_report # NoReport

\* C16 (as stated): scan_ledger on an existing file returns a report without
\* raising and without modifying the file; the report lists every absent
\* required column under missing_columns; its status is "ok" exactly when
\* no required column is missing, no cell is empty and no Loop ID is
\* duplicated, and "warn" otherwise.
C16_ScanReports ==
    /\ [](Scanned =>
            LET f == g_file[1]
            IN  /\ g_report.raised = ""
                /\ g_report.missing_columns = REQUIRED_COLUMNS \ f.columns
                /\ g_report.status =
                      IF /\ REQUIRED_COLUMNS \subseteq f.columns
                         /\ \A i \in 1 .. Len(f.rows) :
                               f.rows[i].id # <<>> /\ f.rows[i].hyp # <<>>
                         /\ \A i \in 1 .. Len(f.rows) : \A j \in 1 .. Len(f.rows) :
                               i # j => f.rows[i].id # f.rows[j].id
                      THEN "ok" ELSE "warn")
    /\ [][g_report' # NoReport => g_file' = g_file]_vars

SrStep == sr_steps' # sr_steps

DryRunStep == SrStep /\ sr_last'.op = "replace" /\ sr_last'.dry_run

\* what the same call with dry_run=False would return
RealRun == replace(sr_files, sr_last'.pattern, sr_last'.repl[1], FALSE)

CliWritesOnlyOnApply ==
    SrStep /\ sr_last'.op = "cli" /\ sr_files' # sr_files =>
        sr_last'.repl # None /\ sr_last'.repl[1] # <<>> /\ sr_last'.apply

ClearStep == a_sync'.n # a_sync.n
C18_ClearMemoryFrame ==
    [][ClearStep =>
          /\ enable_memory => short_term' = << >>
          /\ conversation_history' = << >>
          /\ a_stores' = a_stores
          /\ state' = state
          /\ UNCHANGED <<AgentConfigVars, AgentCall>>]_vars
C18_Witness ==
    /\ a_sync.n = 1 /\ a_sync.dropped
    /\ short_term = << >> /\ conversation_history = << >>
    /\ a_stores.tools # << >> /\ a_stores.episodic # << >>
    /\ a_stores.long_term # {} /\ a_stores.semantic # {}
    /\ state = "completed"

\* C20: a failure inside the closure-ledger hook (recognition, row creation
\* or file save) never affects run(): when think, act and observe succeeded,
\* run() still returns the observation with state completed and still
\* appends the interaction to short-term memory.
HookFailed(hook) == hook \in HookOutcomes \ {"logged"}
ObserveReturns == a_op = "run" /\ a_pc = "observe" /\ a_op' = "none"
C20_HookFailureIgnored ==
    [][ObserveReturns /\ HookFailed(a_hook') =>
          /\ a_outcome' = "returned"
          /\ response'.state = "completed" /\ response'.error = None
          /\ response'.content \in {<<obs>> : obs \in Replies}
          /\ state' = "completed"
          /\ enable_memory /\ a_input.kind = "str" =>
                 short_term' =
                     LastN(short_term \o <<Message("user", a_input.text),
                                           Message("assistant",
                                                   response'.content[1])>>,
                           max_short_term_size)]_vars
C20_Witness ==
    /\ a_hook = "save_failed" /\ closed_loops = 1 /\ a_file_rows = 0
    /\ a_outcome = "returned" /\ response.state = "completed"
    /\ state = "completed"
    /\ short_term = <<Message("user", "hi"), Message("assistant", "ok")>>

\* C19: one call of _stabilized_generate invokes the adapter's generate at
\* most 3 times: it returns the first successful result without any further
\* attempt, sleeps backoff*2^attempt (0.3 s, then 0.6 s) only between a
\* failed attempt and the next attempt and never after the last one, and when
\* all three attempts fail it re-raises the exception of the third attempt.
Attempts(trace) == SelectSeq(trace, LAMBDA ev : ev.ev = "generate")
Sleeps(trace) == SelectSeq(trace, LAMBDA ev : ev.ev = "sleep")
ExpectedSleeps == <<300, 600>>
C19_StabilizedGenerate ==
    LET attempts == Attempts(sg_trace)
        sleeps == Sleeps(sg_trace)
        n == Len(attempts)
    IN  /\ n <= 3
        \* a success is the last thing the call does
        /\ \A i \in 1 .. Len(sg_trace) :
               sg_trace[i].out = "ok" =>
                   /\ i = Len(sg_trace)
                   /\ sg_pc = "done"
                   /\ sg_result = [kind |-> "returned",
                                    value |-> sg_trace[i].text]
        \* the trace alternates attempt, sleep, attempt, ... with the
        \* durations 300 ms and 600 ms
        /\ \A i \in 1 .. Len(sg_trace) :
               IF i % 2 = 1
               THEN sg_trace[i].ev = "generate"
               ELSE /\ sg_trace[i] = SleepEvent(ExpectedSleeps[i \div 2])
                    /\ sg_trace[i - 1].out = "raised"
        /\ Len(sleeps) <= 2
        \* a sleep is followed by another attempt before the call ends
        /\ sg_pc = "done" => sg_trace # << >> /\ sg_trace[Len(sg_trace)].ev = "generate"
        \* three failures: the exception of the third leaves the call
        /\ (n = 3 /\ \A i \in 1 .. 3 : attempts[i].out = "raised") =>
               /\ sg_pc = "done"
               /\ sg_result = [kind |-> "raised", value |-> attempts[3].text]
        \* nothing else ends the call with an exception
        /\ sg_result.kind = "raised" => n = 3
C19_Witness ==
    /\ sg_pc = "done"
    /\ sg_result = [kind |-> "raised", value |-> "late"]
    /\ Len(sg_trace) = 5
    /\ sg_trace[1].text = "boom" /\ sg_trace[3].text = ""
    /\ sg_trace[2].ms = 300 /\ sg_trace[4].ms = 600

\* C21: any exception raised while the security middleware evaluates the
\* rate limiter (unreachable counter backend, missing setting, missing
\* client address) is swallowed: the request is treated as not limited and
\* is passed on to its handler, so a limiter malfunction never produces a
\* 429 or a 5xx.
C21_LimiterFaultsSwallowed ==
    \A i \in 1 .. Len(http_log) :
        http_log[i].raised =>
            /\ http_log[i].limiter
            /\ http_log[i].status = 200
C21_Witness ==
    /\ Len(http_log) >= 3
    /\ \A i \in 1 .. 3 : http_log[i].raised /\ http_log[i].status = 200
                          /\ http_log[i].time = http_log[1].time
                          /\ http_log[i].client = "unknown"

\* C22: with recursive closure enabled, an agent's own ledger gains exactly
\* one row for every run() that completes successfully and none for a run()
\* that ends in error or for any chat(), so after any sequence of calls its
\* row count equals the number of successful run() calls of that agent.
RunCompletes ==
    a_op = "run" /\ a_op' = "none" /\ response'.state = "completed"
C22_RowPerSuccessfulRun ==
    [][IF enable_recursive_closure /\ RunCompletes
       THEN closed_loops' = closed_loops + 1
       ELSE closed_loops' = closed_loops]_vars
C22_Witness ==
    /\ enable_recursive_closure
    /\ closed_loops = 1 /\ a_calls = 3 /\ a_op = "none"
    /\ state = "error" /\ Len(conversation_history) = 2

\* C23: two concurrent chat() calls on the same agent can interleave at the
\* generate suspension point so that the conversation history holds their
\* entries interleaved (user A, user B, then the two replies) instead of as
\* adjacent user/assistant pairs. The history records the appends in the
\* order they happen: a call's user message is in it while the call waits,
\* and its reply lands after every entry appended while it waited.
C23_HistoryInterleaves ==
    \A t \in Tasks :
        /\ cc_tasks[t].pc = "generate" =>
               /\ cc_tasks[t].at \in 1 .. Len(cc_history)
               /\ cc_history[cc_tasks[t].at] = Message("user", cc_tasks[t].msg)
               /\ Len(cc_history) = cc_tasks[t].at + cc_tasks[t].between
        /\ cc_tasks[t].outcome = "returned" =>
               /\ cc_tasks[t].reply_at = cc_tasks[t].at + 1 + cc_tasks[t].between
               /\ cc_history[cc_tasks[t].at] = Message("user", cc_tasks[t].msg)
               /\ cc_history[cc_tasks[t].reply_at] =
                      Message("assistant", cc_tasks[t].reply)
C23_Witness ==
    /\ cc_history = <<Message("user", "hi"), Message("user", "yo"),
                      Message("assistant", "ra"), Message("assistant", "rb")>>
    /\ cc_tasks["A"].outcome = "returned" /\ cc_tasks["A"].msg = "hi"
    /\ cc_tasks["A"].reply = "ra" /\ cc_tasks["A"].between = 1
    /\ cc_tasks["B"].outcome = "returned" /\ cc_tasks["B"].msg = "yo"
    /\ cc_tasks["B"].reply = "rb" /\ cc_tasks["B"].between = 1
    /\ cc_calls = 2

\* C26: for every chat(message) call, with memory enabled or disabled, the
\* message list passed to the adapter's generate contains the current user
\* message as its last entry.
C26_CurrentMessageSent ==
    \A t \in Tasks :
        cc_tasks[t].pc = "generate" =>
            /\ cc_tasks[t].sent # << >>
            /\ cc_tasks[t].sent[Len(cc_tasks[t].sent)] =
                   Message("user", cc_tasks[t].msg)

\* C30: a chat() whose generation fails leaves the conversation history
\* longer by exactly one entry, the user message, with no assistant entry; a
\* successful chat() appends exactly two entries, the user message followed
\* by the assistant reply.
ChatStarts == a_op = "none" /\ a_op' = "chat"
ChatEnds == a_op = "chat" /\ a_op' = "none"
C30_ChatHistoryEffect ==
    [][/\ ChatStarts =>
             conversation_history' =
                 Append(conversation_history, Message("user", a_input'.text))
       /\ ChatEnds =>
             /\ conversation_history # << >>
             /\ conversation_history[Len(conversation_history)] =
                    Message("user", a_input.text)
             /\ IF response'.state = "completed"
                THEN conversation_history' =
                         Append(conversation_history,
                                Message("assistant", response'.content[1]))
                ELSE conversation_history' = conversation_history
       /\ ~ChatStarts /\ ~ChatEnds =>
             conversation_history' = conversation_history]_vars
C30_Witness ==
    /\ a_calls = 2 /\ a_op = "none"
    /\ response.state = "error" /\ a_exc = Some("boom")
    /\ conversation_history = <<Message("user", "hi"), Message("assistant", "ok"),
                                Message("user", "yo")>>

\* C24: create_training_loop with E epochs increases the iteration counter by
\* exactly E, never closes a loop in the first epoch, and in each later epoch
\* closes exactly one loop (one ledger row, closure counter +1) if and only
\* if at least one of records 0, 3, 6, 9 of the training data carries a
\* caption; hence the closure counter never exceeds the iteration counter.
CaptionAtSampled(data) ==
    \E idx \in {0, 3, 6, 9} : idx < Len(data) /\ data[idx + 1]
EpochStep == tl_pc = "loop" /\ tl_epoch' = tl_epoch + 1
ClosesIn(epoch, data) == IF epoch > 0 /\ CaptionAtSampled(data) THEN 1 ELSE 0
C24_TrainingLoopCounters ==
    /\ [][EpochStep =>
             /\ tl_metrics'.iterations = tl_metrics.iterations + 1
             /\ tl_metrics'.closures =
                    tl_metrics.closures + ClosesIn(tl_epoch, tl_data)
             /\ tl_rows' = tl_rows + ClosesIn(tl_epoch, tl_data)
             /\ Len(tl_loops_closed') =
                    Len(tl_loops_closed) + ClosesIn(tl_epoch, tl_data)]_vars
    /\ [](tl_pc = "done" =>
             tl_metrics.iterations = tl_before.iterations + tl_epochs)
    /\ [](tl_metrics.closures <= tl_metrics.iterations)
C24_Witness ==
    /\ tl_pc = "done" /\ tl_calls = 1 /\ tl_epochs = 3
    /\ Len(tl_data) = 11 /\ tl_data[10] /\ tl_data[11]
    /\ tl_metrics.iterations = 3 /\ tl_metrics.closures = 2 /\ tl_rows = 2
    /\ tl_loops_closed = <<[epoch |-> 2, patterns |-> << <<1, 9>> >>],
                           [epoch |-> 3, patterns |-> << <<2, 9>> >>]>>

\* C25: chunk_audio terminates for every audio length and every pair
\* chunk_length_ms > 0, overlap_ms >= 0: its windows start at successive
\* multiples of chunk_length_ms - overlap_ms and the loop stops once the
\* window start reaches the audio's end.
C25_ChunkAudioTerminates ==
    /\ [](\A i \in 1 .. Len(ca_chunks) :
             ca_chunks[i][1] =
                 (i - 1) * (ca_args.chunk_length_ms - ca_args.overlap_ms))
    /\ (ca_pc = "loop") ~> (ca_pc = "done")

\* C27: when two ledger instances are backed by the same file (every
\* AdaptiveTrainingManager uses training_closure_ledger.csv), then after any
\* interleaving of their constructions and detect_and_log_closure calls the
\* file contains every row accepted by either instance.
C27_SharedFileKeepsRows ==
    \A k \in 1 .. Len(sl_accepted) :
        /\ sl_file # None
        /\ \E j \in 1 .. Len(sl_file[1]) :
               sl_file[1][j].hypothesis = sl_accepted[k].hypothesis

\* C28: at most one training job per agent name is scheduled and not yet
\* finished at any time: a POST /training/start for a name whose previous
\* job has not reached completed or failed never schedules a second job for
\* that name.
C28_OneJobPerName ==
    \A j1 \in jobs, j2 \in jobs : j1.name = j2.name => j1.id = j2.id

\* C29: every key of the agent store equals the id of the agent stored under
\* it, so every agent id returned by GET /agents can be fetched with
\* GET /agents/{id}; this holds after any sequence of create, delete and
\* quick-start requests.
C29_KeysAreAgentIds ==
    \A k \in DOMAIN agent_store :
        /\ agent_store[k].id = k
        /\ agent_store[k].id \in DOMAIN agent_store

====
